---- MODULE Spec2Model ----
(***************************************************************************)
(* Model of the FOXO knowledge assistant.                                  *)
(*                                                                         *)
(*   Spec        the chat logic of app.py driving the AutoGen agent pair   *)
(*               built by src/autogen_manager.py (one Ask after another)   *)
(*   SpecCalc    simple_calculator of src/autogen_tools.py on every        *)
(*               expression up to MaxExprLen characters                    *)
(*   SpecIngest  ingest.main, create_or_get_vector_store and the sidebar   *)
(*               ingest button of app.py over one persisted collection     *)
(*                                                                         *)
(* Strings are sequences: chat texts are sequences of tokens (a word, the  *)
(* blank " " or the sentinel "TERMINATE"), calculator expressions are      *)
(* sequences of characters.                                                *)
(***************************************************************************)
EXTENDS Integers, Sequences, FiniteSets, TLC

VARIABLES
    pc,             \* where the chat logic of app.py stands
    prompt,         \* the prompt of the running (or last) Ask
    chat,           \* user_proxy.chat_messages[assistant]
    counter,        \* user_proxy's consecutive auto-reply counter for the assistant
    display,        \* what this Ask appended to st.session_state.display_chat_messages
    toolRuns,       \* names of the tool functions called during this Ask, in order
    endedBy,        \* how the last chat ended: "none", "sentinel", "budget", "error"
    calcExpr,       \* the expression handed to simple_calculator
    calcOut,        \* what simple_calculator did with it (NoCall before the call)
    collExists,     \* the collection foxo_docs_gemini exists in the persist directory
    collEntries,    \* its entries, in insertion order: the chunk and the run that inserted it
    runs,           \* how many times ingest.main has run
    ingestEnv,      \* what the files and the services did during the last run
    ingestLog,      \* the lines the last run of ingest.main printed
    storeReturned,  \* the last create_or_get_vector_store call returned a store
    handleStale,    \* the collection the cached vector-store instance opened was deleted
    uiMessage,      \* what the sidebar told the user about the last ingest request:
                    \* the text, the stage it names ("" for none) and the run it is about
    folder,         \* the folder handed to load_supported_documents
    loaded,         \* what load_supported_documents did with it (NotLoaded before the call)
    chunkArgs,      \* the arguments of chunk_documents: documents, chunk_size, chunk_overlap
    chunked,        \* what chunk_documents returned (NotChunked before the call)
    googleKey,      \* GOOGLE_API_KEY is set in the process that answers queries
    handles,        \* the lazily created _rag_chain_instance_for_tool and _vector_store_instance
    queries,        \* how many knowledge-base queries were made
    ragOut,         \* what the last call of query_internal_knowledge_base did (NoQuery before the first)
    tavilyEnv,      \* what the import of autogen_tools found: TAVILY_API_KEY set, package installed
    searches,       \* how many web searches were made
    webOut,         \* what the last call of perform_web_search did (NoSearch before the first)
    earlier,        \* how the earlier Asks of the session ended (kept by the session's
                    \* specification only)
    openaiKey,      \* OPENAI_API_KEY is set in the environment of the process
    startup,        \* what the imports at the start of the process did (NotStarted before)
    threads,        \* per session thread: its position in the lazy initialisers and what
                    \* they returned to it
    globals,        \* the module globals that cache the agent pair, the RAG chain and the
                    \* vector-store instance (None or the instance)
    made            \* how many instances of each kind the constructors have built

askVars == <<pc, prompt, chat, counter, display, toolRuns, endedBy>>
calcVars == <<calcExpr, calcOut>>
ingestVars == <<collExists, collEntries, runs, ingestEnv, ingestLog, storeReturned, handleStale, uiMessage>>
ragVars == <<googleKey, handles, queries, ragOut>>
webVars == <<tavilyEnv, searches, webOut>>
startVars == <<openaiKey, startup>>
lazyVars == <<threads, globals, made>>
toolVars == <<folder, loaded, chunkArgs, chunked, googleKey, handles, queries, ragOut, tavilyEnv, searches, webOut,
              openaiKey, startup, threads, globals, made>>
fnVars == <<toolVars, earlier>>
vars == <<pc, prompt, chat, counter, display, toolRuns, endedBy, calcExpr, calcOut,
          collExists, collEntries, runs, ingestEnv, ingestLog, storeReturned, handleStale, uiMessage,
          folder, loaded, chunkArgs, chunked, googleKey, handles, queries, ragOut,
          tavilyEnv, searches, webOut, earlier, openaiKey, startup, threads, globals, made>>

----------------------------------------------------------------------------
(* Python helpers on strings *)

\* a str value with its text, and None
Str(toks) == [kind |-> "str", toks |-> toks]
NoneVal == [kind |-> "none", toks |-> <<>>]

RECURSIVE rstrip(_)
\* str.rstrip(): the text without its trailing blanks
rstrip(s) ==
    IF s = <<>> THEN <<>>
    ELSE IF s[Len(s)] = " " THEN rstrip(SubSeq(s, 1, Len(s) - 1))
    ELSE s

RECURSIVE lstrip(_)
\* str.lstrip(): the text without its leading blanks
lstrip(s) ==
    IF s = <<>> THEN <<>>
    ELSE IF s[1] = " " THEN lstrip(Tail(s))
    ELSE s

\* str.strip()
strip(s) == lstrip(rstrip(s))

\* str.endswith(tok) for a one-token suffix
endswith(s, tok) == s # <<>> /\ s[Len(s)] = tok

\* Python truthiness of a message content: None and "" are falsy
Truthy(c) == c.kind = "str" /\ c.toks # <<>>

\* s.find(sub) >= 0: sub occurs in s as a contiguous run
Contains(s, sub) ==
    \E i \in 1..(Len(s) - Len(sub) + 1) : SubSeq(s, i, i + Len(sub) - 1) = sub

----------------------------------------------------------------------------
(* src/autogen_tools.py: the three tools as the agent loop sees them.  A    *)
(* tool call either returns a text or raises.                               *)

Return(text) == [kind |-> "return", text |-> text, exc |-> ""]
Raise(exc) == [kind |-> "raise", text |-> <<>>, exc |-> exc]

\* What the environment can do to one knowledge-base query: the lazy
\* get_rag_chain() fails, the chain answers with or without retrieved
\* chunks, or the chain's invoke raises.
RagEnvs == {"init_raises", "cited", "no_docs", "invoke_raises"}

\* What the environment can do to one web search.
WebEnvs == {"unavailable", "results", "provider_raises"}

\* get_rag_instance_for_tool() is called before the try block, so an
\* exception of get_rag_chain() leaves the function; everything after it is
\* inside try/except and comes back as a text.
query_internal_knowledge_base(env) ==
    IF env = "init_raises" THEN Raise("ValueError")
    ELSE IF env = "cited" THEN Return(<<"Answer:", "Cited Sources:">>)
    ELSE IF env = "no_docs" THEN Return(<<"Answer:", "(No specific source documents were strongly matched)">>)
    ELSE Return(<<"Sorry, an error occurred while querying the documents:">>)

\* tavily_search_tool is None without TAVILY_API_KEY or the package; the
\* provider call sits in try/except.
perform_web_search(env) ==
    IF env = "unavailable" THEN Return(<<"Error:", "Tavily Search tool is not available or TAVILY_API_KEY is not set.">>)
    ELSE IF env = "results" THEN Return(<<"Web Search Results:">>)
    ELSE Return(<<"Error performing web search:">>)

----------------------------------------------------------------------------
(* Python values of the expressions simple_calculator can hand to eval():  *)
(* int, float (kept as the reduced fraction n/d it stands for), the empty  *)
(* tuple, and a raised exception.                                          *)

IntV(n) == [k |-> "int", n |-> n, d |-> 1, exc |-> ""]
TupleV == [k |-> "tuple", n |-> 0, d |-> 1, exc |-> ""]
ExcV(e) == [k |-> "exc", n |-> 0, d |-> 1, exc |-> e]
NoValue == [k |-> "none", n |-> 0, d |-> 1, exc |-> ""]
\* a float (or complex) that is no fraction of small integers: a power with a
\* fractional exponent.  It takes an expression of eight characters.
OtherFloatV == [k |-> "other_float", n |-> 0, d |-> 1, exc |-> ""]

Abs(x) == IF x < 0 THEN -x ELSE x

RECURSIVE GCD(_, _)
GCD(a, b) == IF b = 0 THEN a ELSE GCD(b, a % b)

\* the float n/d (d # 0), reduced, with a positive denominator
FloatV(n, d) ==
    LET g == GCD(Abs(n), Abs(d))
        sgn == IF d < 0 THEN -1 ELSE 1
    IN [k |-> "float", n |-> sgn * (n \div g), d |-> sgn * (d \div g), exc |-> ""]

IsNum(v) == v.k \in {"int", "float"}
IsExc(v) == v.k = "exc"

\* int op int stays int, anything with a float is a float
NumV(a, b, n, d) == IF a.k = "int" /\ b.k = "int" THEN IntV(n) ELSE FloatV(n, d)

RECURSIVE IntPow(_, _)
IntPow(b, e) == IF e = 0 THEN 1 ELSE b * IntPow(b, e - 1)

\* a ** b for an exponent that is a whole number (0 ** negative raises)
Pow(a, b) ==
    IF b.n >= 0
    THEN NumV(a, b, IntPow(a.n, b.n), IntPow(a.d, b.n))
    ELSE IF a.n = 0 THEN ExcV("ZeroDivisionError")
    ELSE FloatV(IntPow(a.d, -b.n), IntPow(a.n, -b.n))

\* a <op> b as Python evaluates it: the left operand first, then the right
BinOp(op, a, b) ==
    IF IsExc(a) THEN a
    ELSE IF IsExc(b) THEN b
    ELSE IF IsNum(a) /\ IsNum(b) THEN
        CASE op = "+" -> NumV(a, b, a.n * b.d + b.n * a.d, a.d * b.d)
          [] op = "-" -> NumV(a, b, a.n * b.d - b.n * a.d, a.d * b.d)
          [] op = "*" -> NumV(a, b, a.n * b.n, a.d * b.d)
          [] op = "/" -> IF b.n = 0 THEN ExcV("ZeroDivisionError")
                         ELSE FloatV(a.n * b.d, a.d * b.n)
          [] op = "//" -> IF b.n = 0 THEN ExcV("ZeroDivisionError")
                          ELSE LET num == a.n * b.d
                                   den == a.d * b.n
                                   q == IF den < 0 THEN (-num) \div (-den) ELSE num \div den
                               IN IF a.k = "int" /\ b.k = "int" THEN IntV(q) ELSE FloatV(q, 1)
          [] op = "**" -> IF b.d = 1 THEN Pow(a, b) ELSE OtherFloatV
    ELSE IF {a.k, b.k} \subseteq {"int", "float", "other_float"} THEN
        IF op \in {"/", "//"} /\ b.n = 0 /\ IsNum(b) THEN ExcV("ZeroDivisionError") ELSE OtherFloatV
    ELSE IF a.k = "tuple" /\ b.k = "tuple" /\ op = "+" THEN TupleV
    ELSE IF op = "*" /\ ((a.k = "tuple" /\ b.k = "int") \/ (a.k = "int" /\ b.k = "tuple")) THEN TupleV
    ELSE ExcV("TypeError")

\* +a and -a
Unary(op, a) ==
    IF IsExc(a) THEN a
    ELSE IF a.k = "other_float" THEN a
    ELSE IF ~IsNum(a) THEN ExcV("TypeError")
    ELSE IF op = "-" THEN [a EXCEPT !.n = -a.n]
    ELSE a

\* callee(arg): nothing an arithmetic expression denotes is callable
CallV(callee, arg) ==
    IF IsExc(callee) THEN callee
    ELSE IF IsExc(arg) THEN arg
    ELSE ExcV("TypeError")

----------------------------------------------------------------------------
(* eval(expression) of src/autogen_tools.py line 81, for the characters    *)
(* simple_calculator lets through.  py = TRUE is Python's grammar: integer *)
(* literals without a leading zero (a run of zeros is 0), the operators    *)
(* ** and //, the empty tuple () and call syntax.  py = FALSE is the plain *)
(* arithmetic of + - * / and parentheses over decimal literals, the        *)
(* reference the calculator is compared with.  The float literals and the  *)
(* Ellipsis that "." can spell are not covered: "." is outside InputChars. *)

Digit == {"0", "1", "2", "3", "4", "5", "6", "7", "8", "9"}

DigitVal(c) ==
    CASE c = "0" -> 0 [] c = "1" -> 1 [] c = "2" -> 2 [] c = "3" -> 3 [] c = "4" -> 4
      [] c = "5" -> 5 [] c = "6" -> 6 [] c = "7" -> 7 [] c = "8" -> 8 [] c = "9" -> 9

RECURSIVE DecValue(_)
DecValue(run) ==
    IF run = <<>> THEN 0
    ELSE 10 * DecValue(SubSeq(run, 1, Len(run) - 1)) + DigitVal(run[Len(run)])

RECURSIVE DigitsEnd(_, _)
\* the last index of the run of digits that starts at i
DigitsEnd(s, i) == IF i < Len(s) /\ s[i + 1] \in Digit THEN DigitsEnd(s, i + 1) ELSE i

NumTok(n) == [t |-> "num", n |-> n]
OpTok(o) == [t |-> o, n |-> 0]
BadTok == [t |-> "bad", n |-> 0]

RECURSIVE Lex(_, _, _)
Lex(s, i, py) ==
    IF i > Len(s) THEN <<>>
    ELSE LET c == s[i] IN
        IF c = " " THEN Lex(s, i + 1, py)
        ELSE IF c \in Digit THEN
            LET j == DigitsEnd(s, i)
                run == SubSeq(s, i, j)
                leadingZero == Len(run) > 1 /\ run[1] = "0" /\ \E x \in 1..Len(run) : run[x] # "0"
            IN <<IF py /\ leadingZero THEN BadTok ELSE NumTok(DecValue(run))>> \o Lex(s, j + 1, py)
        ELSE IF py /\ c = "*" /\ i < Len(s) /\ s[i + 1] = "*" THEN <<OpTok("**")>> \o Lex(s, i + 2, py)
        ELSE IF py /\ c = "/" /\ i < Len(s) /\ s[i + 1] = "/" THEN <<OpTok("//")>> \o Lex(s, i + 2, py)
        ELSE IF c \in {"+", "-", "*", "/", "(", ")"} THEN <<OpTok(c)>> \o Lex(s, i + 1, py)
        ELSE <<BadTok>> \o Lex(s, i + 1, py)

Peek(ts, i) == IF i >= 1 /\ i <= Len(ts) THEN ts[i].t ELSE "eof"

Parsed(pos, val) == [ok |-> TRUE, pos |-> pos, val |-> val]
SyntaxFail == [ok |-> FALSE, pos |-> 0, val |-> NoValue]

RECURSIVE Parse(_, _, _, _, _)
\* One nonterminal nt of the grammar read from token i; acc is the value read
\* so far where the nonterminal continues one (the callee of "calls", the
\* left operand of "termrest" and "sumrest").
\*   sum:     term (("+" | "-") term)*
\*   term:    factor (("*" | "/" | "//") factor)*
\*   factor:  ("+" | "-") factor | power
\*   power:   primary ["**" factor]
\*   primary: atom ("(" [["*" | "**"] sum] ")")*
\*   atom:    NUMBER | "(" sum ")" | "(" ")"
Parse(nt, ts, i, acc, py) ==
    CASE nt = "atom" ->
            IF Peek(ts, i) = "num" THEN Parsed(i + 1, IntV(ts[i].n))
            ELSE IF Peek(ts, i) = "(" THEN
                IF py /\ Peek(ts, i + 1) = ")" THEN Parsed(i + 2, TupleV)
                ELSE LET r == Parse("sum", ts, i + 1, NoValue, py) IN
                    IF r.ok /\ Peek(ts, r.pos) = ")" THEN Parsed(r.pos + 1, r.val) ELSE SyntaxFail
            ELSE SyntaxFail
      [] nt = "calls" ->
            IF Peek(ts, i) # "(" THEN Parsed(i, acc)
            ELSE IF Peek(ts, i + 1) = ")" THEN Parse("calls", ts, i + 2, CallV(acc, NoValue), py)
            ELSE LET j == IF Peek(ts, i + 1) \in {"*", "**"} THEN i + 2 ELSE i + 1
                     r == Parse("sum", ts, j, NoValue, py)
                 IN IF r.ok /\ Peek(ts, r.pos) = ")"
                    THEN Parse("calls", ts, r.pos + 1, CallV(acc, r.val), py)
                    ELSE SyntaxFail
      [] nt = "primary" ->
            LET a == Parse("atom", ts, i, NoValue, py) IN
            IF a.ok /\ py THEN Parse("calls", ts, a.pos, a.val, py) ELSE a
      [] nt = "power" ->
            LET b == Parse("primary", ts, i, NoValue, py) IN
            IF b.ok /\ Peek(ts, b.pos) = "**" THEN
                LET e == Parse("factor", ts, b.pos + 1, NoValue, py) IN
                IF e.ok THEN Parsed(e.pos, BinOp("**", b.val, e.val)) ELSE SyntaxFail
            ELSE b
      [] nt = "factor" ->
            IF Peek(ts, i) \in {"+", "-"} THEN
                LET f == Parse("factor", ts, i + 1, NoValue, py) IN
                IF f.ok THEN Parsed(f.pos, Unary(Peek(ts, i), f.val)) ELSE SyntaxFail
            ELSE Parse("power", ts, i, NoValue, py)
      [] nt = "termrest" ->
            IF Peek(ts, i) \in {"*", "/", "//"} THEN
                LET f == Parse("factor", ts, i + 1, NoValue, py) IN
                IF f.ok THEN Parse("termrest", ts, f.pos, BinOp(Peek(ts, i), acc, f.val), py)
                ELSE SyntaxFail
            ELSE Parsed(i, acc)
      [] nt = "term" ->
            LET f == Parse("factor", ts, i, NoValue, py) IN
            IF f.ok THEN Parse("termrest", ts, f.pos, f.val, py) ELSE SyntaxFail
      [] nt = "sumrest" ->
            IF Peek(ts, i) \in {"+", "-"} THEN
                LET t == Parse("term", ts, i + 1, NoValue, py) IN
                IF t.ok THEN Parse("sumrest", ts, t.pos, BinOp(Peek(ts, i), acc, t.val), py)
                ELSE SyntaxFail
            ELSE Parsed(i, acc)
      [] nt = "sum" ->
            LET t == Parse("term", ts, i, NoValue, py) IN
            IF t.ok THEN Parse("sumrest", ts, t.pos, t.val, py) ELSE SyntaxFail

\* the value of the whole text, or the exception raised: a SyntaxError
\* before anything is evaluated, else the first exception of the evaluation
Evaluate(s, py) ==
    LET ts == Lex(s, 1, py)
        r == Parse("sum", ts, 1, NoValue, py)
    IN IF (\E x \in 1..Len(ts) : ts[x].t = "bad") \/ ~r.ok \/ r.pos # Len(ts) + 1
       THEN ExcV("SyntaxError")
       ELSE r.val

\* eval(expression)
eval(expression) == Evaluate(expression, TRUE)

----------------------------------------------------------------------------
(* src/autogen_tools.py: simple_calculator *)

\* the longest expression handed to simple_calculator
MaxExprLen == 4

\* the characters the expressions are made of: digits, every operator and
\* parenthesis, the blank, and "_" for a character that is not allowed
InputChars == {"0", "2", "+", "-", "*", "/", "(", ")", " ", "_"}

Expressions == UNION {[1..n -> InputChars] : n \in 0..MaxExprLen}

allowed_chars == Digit \cup {"+", "-", "*", "/", "(", ")", ".", " "}

disallowed_keywords ==
    { <<"i", "m", "p", "o", "r", "t">>, <<"o", "s">>, <<"s", "y", "s">>,
      <<"e", "v", "a", "l">>, <<"e", "x", "e", "c">>,
      <<"l", "a", "m", "b", "d", "a">>, <<"d", "e", "f">>, <<"_", "_">> }

UpperCase == <<"A", "B", "C", "D", "E", "F", "G", "H", "I", "J", "K", "L", "M",
               "N", "O", "P", "Q", "R", "S", "T", "U", "V", "W", "X", "Y", "Z">>
LowerCase == <<"a", "b", "c", "d", "e", "f", "g", "h", "i", "j", "k", "l", "m",
               "n", "o", "p", "q", "r", "s", "t", "u", "v", "w", "x", "y", "z">>

\* str.lower()
lower(s) ==
    [i \in 1..Len(s) |->
        IF \E u \in 1..26 : UpperCase[u] = s[i]
        THEN LowerCase[CHOOSE u \in 1..26 : UpperCase[u] = s[i]]
        ELSE s[i]]

\* what a call of simple_calculator did: the text it returned (ret), whether
\* it reached eval(), and the exception that left it ("" when none did)
CalcDone(ret, evaluated, escaped) == [ret |-> ret, evaluated |-> evaluated, escaped |-> escaped]

CalcText(head, body, expr, value) == [head |-> head, body |-> body, expr |-> expr, value |-> value]
NoText == CalcText("", "", <<>>, NoValue)

\* all(char in allowed_chars for char in expression), with any() for all()
all_allowed_any(expression) == \E i \in 1..Len(expression) : expression[i] \in allowed_chars

\* all(char in allowed_chars for char in expression)
all_allowed(expression) == \A i \in 1..Len(expression) : expression[i] \in allowed_chars

\* any(keyword in expression.lower() for keyword in [...])
any_keyword(expression) == \E kw \in disallowed_keywords : Contains(lower(expression), kw)

\* an except clause that lets the exception go on
calc_except_reraise(expression, e) == CalcDone(NoText, TRUE, e)

\* except Exception as e: ... return f"Error: Could not evaluate ..."
calc_except(expression, e) ==
    CalcDone(CalcText("Error:", "Could not evaluate the expression. Ensure it's a valid simple arithmetic expression.",
                      expression, NoValue), TRUE, "")

simple_calculator(expression) ==
    IF ~all_allowed(expression)
    THEN CalcDone(CalcText("Error:", "Expression contains invalid characters for simple_calculator.", <<>>, NoValue),
                  FALSE, "")
    ELSE IF any_keyword(expression)
    THEN CalcDone(CalcText("Error:", "Expression contains disallowed keywords for safety.", <<>>, NoValue),
                  FALSE, "")
    ELSE LET result == eval(expression) IN
         IF IsExc(result)
         THEN calc_except(expression, result.exc)
         ELSE CalcDone(CalcText("The result of", "is", expression, result), TRUE, "")

NoCall == [ret |-> NoText, evaluated |-> FALSE, escaped |-> "not called"]

\* the tool is called with calcExpr
CallCalculator ==
    /\ calcOut = NoCall
    /\ calcOut' = simple_calculator(calcExpr)
    /\ UNCHANGED <<calcExpr, askVars, ingestVars, fnVars>>

----------------------------------------------------------------------------
(* src/autogen_manager.py: the agent pair.  The UserProxyAgent is built    *)
(* with human_input_mode="NEVER", max_consecutive_auto_reply=5, the        *)
(* is_termination_msg lambda and the function_map; the conversation runs   *)
(* as AutoGen's ConversableAgent runs it (send, receive, generate_reply).  *)

max_consecutive_auto_reply == 5

\* function_map with one more entry than the source registers
function_map_extra ==
    {"query_internal_knowledge_base", "simple_calculator", "perform_web_search", "run_shell"}

\* the names of function_map
function_map == {"query_internal_knowledge_base", "simple_calculator", "perform_web_search"}

\* a tool name the model can ask for that the source does not register
UnregisteredNames == {"run_shell"}

\* a message of chat_messages: role, content, the name of the requested
\* function ("" for none), the name key (a function result carries the
\* function's name), and who sent it (not a key of the dict; kept to tell
\* the model's turns from the proxy's)
Msg(role, content, fc, name, sender) ==
    [role |-> role, content |-> content, function_call |-> fc, name |-> name, sender |-> sender]

\* a termination test that looks for TERMINATE anywhere in the text
is_termination_msg_anywhere(x) ==
    x.content.kind = "str" /\ \E i \in 1..Len(x.content.toks) : x.content.toks[i] = "TERMINATE"

\* is_termination_msg=lambda x: x.get("content", "") is not None and
\*   isinstance(x.get("content"), str) and x.get("content", "").rstrip().endswith("TERMINATE")
is_termination_msg(x) ==
    x.content.kind # "none" /\ x.content.kind = "str" /\ endswith(rstrip(x.content.toks), "TERMINATE")

\* ConversableAgent stores a message under the role of the side that holds
\* the list: what the proxy sends is "assistant", what it receives is
\* "user"; a function result keeps "function", and a message with a
\* function_call is always "assistant".
StoredRole(role, fc, sending) ==
    IF role = "function" THEN "function"
    ELSE IF fc # "" THEN "assistant"
    ELSE IF sending THEN "assistant" ELSE "user"

\* what the proxy appends when it sends a text
Sent(content) == Msg(StoredRole("", "", TRUE), content, "", "", "UserProxy")

\* what the proxy appends when it sends a function result
SentResult(fname, content) == Msg(StoredRole("function", "", TRUE), content, "", fname, "UserProxy")

\* what the proxy appends when it receives a turn of the assistant
Received(out) ==
    Msg(StoredRole("", out.function_call, FALSE), out.content, out.function_call, "",
        "KnowledgeExplorerAssistant")

\* the call of one registered tool function: what it returns or raises.
\* arg is the expression of a calculator call and the environment's choice
\* for the other two.
CallTool(fname, arg) ==
    IF fname = "query_internal_knowledge_base" THEN query_internal_knowledge_base(arg)
    ELSE IF fname = "perform_web_search" THEN perform_web_search(arg)
    ELSE IF fname = "simple_calculator" THEN
        LET r == simple_calculator(IF arg = "2+2" THEN <<"2", "+", "2">> ELSE <<>>) IN
        IF r.escaped # "" THEN Raise(r.escaped) ELSE Return(<<r.ret.head, r.ret.body>>)
    ELSE Return(<<"ran", fname>>)

\* the calls the agent loop is run with: a knowledge-base query whose lazy
\* initialisation fails and one that answers, a search without provider,
\* one calculation
LoopArgs ==
    [query_internal_knowledge_base |-> {"init_raises", "cited"},
     perform_web_search |-> {"unavailable"},
     simple_calculator |-> {"2+2"}]

ToolArgs(fname) == IF fname \in DOMAIN LoopArgs THEN LoopArgs[fname] ELSE {"none"}

\* the router without its try/except: an exception of the tool leaves it
execute_function_no_catch(fname, arg) ==
    IF fname \in function_map
    THEN LET o == CallTool(fname, arg) IN
         [ran |-> TRUE, tool |-> o.kind, raised |-> o.exc,
          content |-> IF o.kind = "return" THEN Str(o.text) ELSE NoneVal]
    ELSE [ran |-> FALSE, tool |-> "", raised |-> "",
          content |-> Str(<<"Error:", "Function not found.", fname>>)]

\* ConversableAgent.execute_function over function_map: an unknown name is
\* answered "Error: Function <name> not found." without calling anything; an
\* exception of the tool becomes the text "Error: <e>".  ran: a tool function
\* was called; tool: whether it returned or raised; raised: the exception
\* that leaves the router.
execute_function(fname, arg) ==
    IF fname \in function_map
    THEN LET o == CallTool(fname, arg) IN
         [ran |-> TRUE, tool |-> o.kind, raised |-> "",
          content |-> IF o.kind = "return" THEN Str(o.text) ELSE Str(<<"Error:", o.exc>>)]
    ELSE [ran |-> FALSE, tool |-> "", raised |-> "",
          content |-> Str(<<"Error:", "Function not found.", fname>>)]

----------------------------------------------------------------------------
(* app.py: the chat logic, lines 136-215 *)

\* what the user can type
Prompts == {<<"q">>}

\* the texts a turn of the model can carry
ModelTexts ==
    { <<"a">>, <<>>,
      <<"a", " ", "TERMINATE">>, <<"a", "TERMINATE", " ">>, <<"TERMINATE">> }

\* a turn of the model: a text, or a function call with content None
ModelOutputs ==
    {[content |-> Str(t), function_call |-> ""] : t \in ModelTexts}
    \cup {[content |-> NoneVal, function_call |-> f] : f \in function_map \cup UnregisteredNames}

Last(s) == s[Len(s)]

DisplayMsg(role, name, content, fc) ==
    [role |-> role, name |-> name, content |-> content, function_call |-> fc]

FallbackText ==
    <<"(Assistant processed the request but provided no further textual response for this turn.)">>

\* line 163: the turn that is not shown again
IsPromptEcho(m, p) == m.role = "user" /\ m.content = Str(p)

\* lines 166-177
role_to_display(m) == IF m.role = "model" THEN "assistant" ELSE m.role
msg_for_streamlit_display(m) ==
    DisplayMsg(role_to_display(m), IF m.name # "" THEN m.name ELSE m.role, m.content, m.function_call)

\* lines 181-187
is_final_answer_candidate(m) ==
    /\ role_to_display(m) = "assistant"
    /\ Truthy(m.content)
    /\ strip(m.content.toks) # <<>>
    /\ m.function_call = ""

\* lines 193-199: the second look, most recent turn first
is_late_candidate(m) ==
    m.role = "assistant" /\ Truthy(m.content) /\ m.function_call = ""

\* lines 158-206: what the chat logic appends to the display history for
\* the conversation `conv` of prompt p
Rendered(conv, p) ==
    LET kept == SelectSeq(conv, LAMBDA m : ~IsPromptEcho(m, p))
        shown == [i \in 1..Len(kept) |-> msg_for_streamlit_display(kept[i])]
        first == \E i \in 1..Len(kept) : is_final_answer_candidate(kept[i])
        added_assistant_final_reply ==
            first \/ (conv # <<>> /\ \E i \in 1..Len(conv) : is_late_candidate(conv[i]))
    IN IF added_assistant_final_reply
       THEN shown
       ELSE Append(shown, DisplayMsg("assistant", "KnowledgeExplorerAssistant", Str(FallbackText), ""))

\* lines 210-214: the except clause of the chat logic
SystemErrorMsg ==
    DisplayMsg("assistant", "SystemError", Str(<<"An error occurred during AutoGen interaction:">>), "")

\* the chat logic without user_proxy.reset() and with an initiate_chat
\* that keeps the history: the prompt is added to what the last Ask left
initiate_chat_without_reset(p) ==
    /\ pc = "idle"
    /\ prompt' = p
    /\ display' = <<DisplayMsg("user", "User", Str(p), "")>>
    /\ chat' = Append(chat, Sent(Str(p)))
    /\ counter' = counter
    /\ toolRuns' = <<>>
    /\ endedBy' = "none"
    /\ pc' = "awaiting_model"
    /\ UNCHANGED <<calcVars, ingestVars, toolVars>>

\* lines 136-156: line 138 shows the prompt, user_proxy.reset() and
\* initiate_chat() clear the history and the counter and send the prompt
initiate_chat(p) ==
    /\ pc = "idle"
    /\ prompt' = p
    /\ display' = <<DisplayMsg("user", "User", Str(p), "")>>
    /\ chat' = <<Sent(Str(p))>>
    /\ counter' = 0
    /\ toolRuns' = <<>>
    /\ endedBy' = "none"
    /\ pc' = "awaiting_model"
    /\ UNCHANGED <<calcVars, ingestVars, toolVars>>

\* The user submits a prompt.
Ask(p) ==
    /\ initiate_chat(p)
    /\ UNCHANGED earlier

\* The user submits a prompt; the way the Ask before it ended is remembered.
AskAgain(p) ==
    /\ initiate_chat(p)
    /\ earlier' = IF endedBy = "none" THEN earlier ELSE earlier \cup {endedBy}

\* The assistant's model answers and the proxy receives the turn.
ModelTurn(out) ==
    /\ pc = "awaiting_model"
    /\ chat' = Append(chat, Received(out))
    /\ pc' = "proxy_received"
    /\ UNCHANGED <<prompt, counter, display, toolRuns, endedBy, calcVars, ingestVars, fnVars>>

\* The call of the model raises (the API fails): the exception leaves
\* initiate_chat and the except clause of the chat logic reports it.
ModelError ==
    /\ pc = "awaiting_model"
    /\ display' = Append(display, SystemErrorMsg)
    /\ endedBy' = "error"
    /\ pc' = "idle"
    /\ UNCHANGED <<prompt, chat, counter, toolRuns, calcVars, ingestVars, fnVars>>

\* a proxy that stops on the budget only
ProxyStops_on_budget_only == counter >= max_consecutive_auto_reply

\* check_termination_and_human_reply with human_input_mode="NEVER": the
\* proxy stops when its auto-replies are spent or the turn is a termination
\* message
ProxyStops == counter >= max_consecutive_auto_reply \/ is_termination_msg(Last(chat))

ProxyStop ==
    /\ pc = "proxy_received"
    /\ ProxyStops
    /\ counter' = 0
    /\ endedBy' = IF is_termination_msg(Last(chat)) THEN "sentinel" ELSE "budget"
    /\ pc' = "chat_done"
    /\ UNCHANGED <<prompt, chat, display, toolRuns, calcVars, ingestVars, fnVars>>

\* The proxy has run execute_function for fname and got r: it sends the
\* result back as a turn of role "function".  (An exception that left the
\* router would leave initiate_chat and reach the except clause.)
SendFunctionResult(fname, r) ==
    /\ counter' = counter + 1
    /\ toolRuns' = IF r.ran THEN Append(toolRuns, [name |-> fname, outcome |-> r.tool]) ELSE toolRuns
    /\ IF r.raised = ""
       THEN /\ chat' = Append(chat, SentResult(fname, r.content))
            /\ pc' = "awaiting_model"
            /\ UNCHANGED <<display, endedBy>>
       ELSE /\ display' = Append(display, SystemErrorMsg)
            /\ endedBy' = "error"
            /\ pc' = "idle"
            /\ UNCHANGED chat

\* generate_function_call_reply: the proxy runs the requested function.
ProxyFunctionReply(arg) ==
    /\ pc = "proxy_received"
    /\ ~ProxyStops
    /\ Last(chat).function_call # ""
    /\ arg \in ToolArgs(Last(chat).function_call)
    /\ SendFunctionResult(Last(chat).function_call, execute_function(Last(chat).function_call, arg))
    /\ UNCHANGED <<prompt, calcVars, ingestVars, fnVars>>

\* A text that does not end the chat gets the default auto-reply "".
ProxyAutoReply ==
    /\ pc = "proxy_received"
    /\ ~ProxyStops
    /\ Last(chat).function_call = ""
    /\ counter' = counter + 1
    /\ chat' = Append(chat, Sent(Str(<<>>)))
    /\ pc' = "awaiting_model"
    /\ UNCHANGED <<prompt, display, toolRuns, endedBy, calcVars, ingestVars, fnVars>>

\* initiate_chat has returned: lines 158-208 render the conversation.
ShowConversation ==
    /\ pc = "chat_done"
    /\ display' = display \o Rendered(chat, prompt)
    /\ pc' = "idle"
    /\ UNCHANGED <<prompt, chat, counter, toolRuns, endedBy, calcVars, ingestVars, fnVars>>

----------------------------------------------------------------------------
(* Ingestion: src/ingest.py and src/src/vector_store_manager.py *)

MaxRuns == 2
MaxChunks == 2
ChunkIds == {"c1", "c2"}

\* The chunk lists chunk_documents can hand to the store, <<>> when nothing
\* was loaded.
ChunkLists == UNION {[1..n -> ChunkIds] : n \in 0..MaxChunks}

\* What the data folder and the services do during one run of ingest.main:
\* files    the data folder exists and is not empty
\* pdf      one of its files ends in .pdf (only the sidebar looks at this)
\* docs     the loader could read a document with text in it
\* chunks   the chunks of the loaded documents (a document with text
\*          gives at least one chunk, no document gives none)
\* embedInit  get_embedding_function finds GOOGLE_API_KEY
\* delete   client creation, list_collections and delete_collection all work
\* insert   Chroma.from_documents: "ok", "embed_fails" (nothing was added),
\*          "insert_fails" (the first chunk was added, then the add raised)
\* verify   the client.get_collection of the verification works
IngestEnvs ==
    {e \in [files : BOOLEAN, pdf : BOOLEAN, docs : BOOLEAN, chunks : ChunkLists, embedInit : BOOLEAN,
            delete : BOOLEAN, insert : {"ok", "embed_fails", "insert_fails"}, verify : BOOLEAN] :
        /\ e.pdf => e.files
        /\ e.docs => e.files
        /\ e.docs <=> e.chunks # <<>>}

NoEnv == [files |-> FALSE, pdf |-> FALSE, docs |-> FALSE, chunks |-> <<>>, embedInit |-> FALSE,
          delete |-> FALSE, insert |-> "ok", verify |-> FALSE]

Entry(chunk, run) == [chunk |-> chunk, run |-> run]

Entries(documents, run) == [i \in 1..Len(documents) |-> Entry(documents[i], run)]

StoreResult(exists, entries, returned, raised, log) ==
    [exists |-> exists, entries |-> entries, returned |-> returned, raised |-> raised, log |-> log]

\* Lines 52-64: the recreate branch.  A collection that is listed is deleted;
\* an exception anywhere in the block is printed and swallowed.
delete_collection(exists, entries, e) ==
    IF e.delete
    THEN [exists |-> FALSE, entries |-> <<>>,
          log |-> IF exists THEN {"Successfully deleted existing collection"}
                  ELSE {"Collection not found, no need to delete"}]
    ELSE [exists |-> exists, entries |-> entries,
          log |-> {"Error during collection deletion (continuing to create)"}]

\* Lines 67-75: Chroma.from_documents gets or creates the collection, embeds
\* the texts and adds them; an exception of the embedding or of the add
\* leaves the function.
from_documents(exists, entries, documents, e, run, log) ==
    CASE e.insert = "ok" ->
            StoreResult(TRUE, entries \o Entries(documents, run), TRUE, "", log \cup {"Vector store created and persisted"})
      [] e.insert = "embed_fails" ->
            StoreResult(TRUE, entries, FALSE, "EmbeddingError", log)
      [] e.insert = "insert_fails" ->
            StoreResult(TRUE, entries \o Entries(SubSeq(documents, 1, 1), run), FALSE, "InsertError", log)

\* Lines 76-84: no documents, so the existing collection is opened (the
\* Chroma constructor gets or creates it).
load_existing(exists, entries, log) ==
    StoreResult(TRUE, entries, TRUE, "", log \cup {"Existing vector store loaded"})

\* Lines 28-85.
create_or_get_vector_store(exists, entries, documents, recreate, e, run) ==
    IF recreate
    THEN IF documents # <<>>
         THEN from_documents(delete_collection(exists, entries, e).exists,
                             delete_collection(exists, entries, e).entries,
                             documents, e, run,
                             delete_collection(exists, entries, e).log)
         ELSE load_existing(delete_collection(exists, entries, e).exists,
                            delete_collection(exists, entries, e).entries,
                            delete_collection(exists, entries, e).log)
    ELSE IF documents # <<>>
         THEN from_documents(exists, entries, documents, e, run, {})
         ELSE load_existing(exists, entries, {})

\* ingest.main, lines 66-70: the handler of the vector store step prints the
\* error and returns.
store_failed(r) ==
    [r EXCEPT !.log = @ \cup {"ERROR: Failed to create or update vector store"}]

\* ingest.main, lines 55-75: after the store came back, the collection is
\* read again for its count (inside the same try), and the success line is
\* printed last.
store_done(r, e) ==
    IF ~e.verify
    THEN store_failed([r EXCEPT !.log = @ \cup {"INFO: Vector store processing complete"}])
    ELSE [r EXCEPT !.log = @ \cup {"INFO: Vector store processing complete",
                                   "INFO: Verification: collection count",
                                   "INFO: Document ingestion process completed successfully!"}]

\* main without the early return of the embedding step
main_without_embedding_return(exists, entries, e, run) ==
    IF ~e.files
    THEN StoreResult(exists, entries, FALSE, "", {"ERROR: No files found"})
    ELSE IF ~e.docs
    THEN StoreResult(exists, entries, FALSE, "", {"ERROR: No documents were loaded"})
    ELSE IF e.chunks = <<>>
    THEN StoreResult(exists, entries, FALSE, "", {"ERROR: No chunks were created"})
    ELSE IF create_or_get_vector_store(exists, entries, e.chunks, TRUE, e, run).raised # ""
    THEN store_failed([create_or_get_vector_store(exists, entries, e.chunks, TRUE, e, run) EXCEPT !.raised = ""])
    ELSE store_done(create_or_get_vector_store(exists, entries, e.chunks, TRUE, e, run), e)

\* ingest.main, lines 10-75.  Every failure prints an ERROR line and
\* returns; nothing is raised to the caller.
main(exists, entries, e, run) ==
    IF ~e.files
    THEN StoreResult(exists, entries, FALSE, "", {"ERROR: No files found"})
    ELSE IF ~e.docs
    THEN StoreResult(exists, entries, FALSE, "", {"ERROR: No documents were loaded"})
    ELSE IF e.chunks = <<>>
    THEN StoreResult(exists, entries, FALSE, "", {"ERROR: No chunks were created"})
    ELSE IF ~e.embedInit
    THEN StoreResult(exists, entries, FALSE, "", {"ERROR: Failed to initialize embedding function"})
    ELSE IF create_or_get_vector_store(exists, entries, e.chunks, TRUE, e, run).raised # ""
    THEN store_failed([create_or_get_vector_store(exists, entries, e.chunks, TRUE, e, run) EXCEPT !.raised = ""])
    ELSE store_done(create_or_get_vector_store(exists, entries, e.chunks, TRUE, e, run), e)

\* A Chroma instance holds the collection object it got when it was built,
\* and that object names the collection by its id: once the recreate branch
\* has deleted the collection, the instance refers to a collection that is
\* gone, whatever is created under the same name afterwards.
deleted_under_handle(r) == "Successfully deleted existing collection" \in r.log

IngestApply(r, e) ==
    /\ collExists' = r.exists
    /\ collEntries' = r.entries
    /\ storeReturned' = r.returned
    /\ handleStale' = (handleStale \/ (handles.vector_store /\ deleted_under_handle(r)))
    /\ ingestLog' = r.log
    /\ ingestEnv' = e
    /\ runs' = runs + 1

\* python ingest.py
RunIngest(e) ==
    /\ runs < MaxRuns
    /\ IngestApply(main(collExists, collEntries, e, runs + 1), e)
    /\ UNCHANGED <<uiMessage, askVars, calcVars, fnVars>>

\* app.py lines 104-120: the sidebar button.
UiMessage(text, stage, run) == [text |-> text, stage |-> stage, run |-> run]

SidebarDone(r, e) ==
    IF r.raised # ""
    THEN /\ uiMessage' = UiMessage("An error occurred during ingestion", "", runs + 1)
         /\ UNCHANGED display
    ELSE /\ uiMessage' = UiMessage("Documents ingested successfully!", "", runs + 1)
         /\ display' = <<>>

SidebarIngest(e) ==
    /\ pc = "idle"
    /\ runs < MaxRuns
    /\ e.pdf
    /\ IngestApply(main(collExists, collEntries, e, runs + 1), e)
    /\ SidebarDone(main(collExists, collEntries, e, runs + 1), e)
    /\ UNCHANGED <<pc, prompt, chat, counter, toolRuns, endedBy, calcVars, fnVars>>

SidebarNoPdf(e) ==
    /\ pc = "idle"
    /\ ~e.pdf
    /\ uiMessage' = UiMessage("No PDF files found", "", 0)
    /\ UNCHANGED <<collExists, collEntries, runs, ingestEnv, ingestLog, storeReturned, handleStale,
                   askVars, calcVars, fnVars>>

----------------------------------------------------------------------------
(* src/document_processor.py: load_supported_documents *)

MaxFiles == 2
MaxPages == 2

\* the extensions of the file names in the folder
Extensions ==
    { <<".", "p", "d", "f">>, <<".", "P", "D", "F">>, <<".", "t", "x", "t">>,
      <<".", "m", "d">>, <<".", "d", "o", "c", "x">> }

\* what reading one part of a file gives: a text, only whitespace, or an
\* exception (a page that cannot be parsed, a content that cannot be decoded)
PartKinds == {"text", "blank", "raise"}

\* a file of the folder: its extension, whether fitz.open() succeeds (PDF
\* only), and its parts: the pages of a PDF, the one content of a text file
Files ==
    {[ext |-> x, opens |-> TRUE, parts |-> ps] :
        x \in {<<".", "p", "d", "f">>, <<".", "P", "D", "F">>},
        ps \in UNION {[1..n -> PartKinds] : n \in 0..MaxPages}}
    \cup {[ext |-> x, opens |-> FALSE, parts |-> <<>>] :
        x \in {<<".", "p", "d", "f">>, <<".", "P", "D", "F">>}}
    \cup {[ext |-> x, opens |-> TRUE, parts |-> <<k>>] :
        x \in {<<".", "t", "x", "t">>, <<".", "m", "d">>}, k \in PartKinds}
    \cup {[ext |-> <<".", "d", "o", "c", "x">>, opens |-> TRUE, parts |-> <<"text">>]}

\* the number of parts of the files fs
RECURSIVE PartCount(_)
PartCount(fs) == IF fs = <<>> THEN 0 ELSE Len(fs[1].parts) + PartCount(Tail(fs))

\* the folders: a path that is no directory, or the files os.listdir
\* gives, with at most MaxPages + 1 parts in all
Folders ==
    {[isdir |-> FALSE, files |-> <<>>]}
    \cup {[isdir |-> TRUE, files |-> fs] :
            fs \in {gs \in UNION {[1..n -> Files] : n \in 0..MaxFiles} : PartCount(gs) <= MaxPages + 1}}

supported_extensions == {<<".", "p", "d", "f">>, <<".", "t", "x", "t">>, <<".", "m", "d">>}

\* line 48: os.path.splitext(filename.lower())[1]
file_extension(f) == lower(f.ext)

\* a Document: the file (by its place in the folder) and part its content
\* comes from, and its metadata; page 0 stands for no page key
Document(file, part, source, page, type) ==
    [file |-> file, part |-> part, source |-> source, page |-> page, type |-> type]

\* the name of the i-th file of the folder
Filename(f, i) == <<i>> \o f.ext

\* what the processing of one file comes to: its documents, or the
\* exception raised while it was read
FileRead(docs, raised) == [docs |-> docs, raised |-> raised]

\* read_pdf without the test of text.strip(): every page gives a Document
read_pdf_keeps_blank(f, i) ==
    IF ~f.opens THEN FileRead(<<>>, "FileDataError")
    ELSE IF \E p \in 1..Len(f.parts) : f.parts[p] = "raise" THEN FileRead(<<>>, "RuntimeError")
    ELSE FileRead([p \in 1..Len(f.parts) |-> Document(i, p, Filename(f, i), (p - 1) + 1, "pdf")], "")

\* lines 57-68: one Document per page whose text is not only whitespace,
\* with page = page_num + 1; a page that cannot be read raises
read_pdf(f, i) ==
    IF ~f.opens THEN FileRead(<<>>, "FileDataError")
    ELSE IF \E p \in 1..Len(f.parts) : f.parts[p] = "raise" THEN FileRead(<<>>, "RuntimeError")
    ELSE FileRead(
        SelectSeq([p \in 1..Len(f.parts) |-> Document(i, p, Filename(f, i), (p - 1) + 1, "pdf")],
                  LAMBDA d : f.parts[d.part] = "text"),
        "")

\* lines 85-97: the whole content is one Document unless it is only whitespace
read_text(f, i) ==
    IF f.parts[1] = "raise" THEN FileRead(<<>>, "UnicodeDecodeError")
    ELSE IF f.parts[1] = "text"
    THEN FileRead(<<Document(i, 1, Filename(f, i), 0, Tail(file_extension(f)))>>, "")
    ELSE FileRead(<<>>, "")

\* one pass of the loop body without its except clauses
read_file(f, i) ==
    IF file_extension(f) = <<".", "p", "d", "f">> THEN read_pdf(f, i) ELSE read_text(f, i)

\* a loop body that lets the exception of the file go on
process_file_no_except(f, i) == read_file(f, i)

\* lines 50-117: the loop body; the except clauses count the error and go
\* on to the next file
process_file(f, i) ==
    IF read_file(f, i).raised # "" THEN FileRead(<<>>, "") ELSE read_file(f, i)

LoadDone(docs, files_with_errors, escaped) ==
    [docs |-> docs, files_with_errors |-> files_with_errors, escaped |-> escaped]

RECURSIVE load_loop(_, _, _)
\* lines 46-117: the loop over filenames_to_process
load_loop(files, i, acc) ==
    IF i > Len(files) THEN acc
    ELSE IF file_extension(files[i]) \notin supported_extensions THEN load_loop(files, i + 1, acc)
    ELSE IF process_file(files[i], i).raised # ""
    THEN LoadDone(acc.docs, acc.files_with_errors, process_file(files[i], i).raised)
    ELSE load_loop(files, i + 1,
                   LoadDone(acc.docs \o process_file(files[i], i).docs,
                            acc.files_with_errors + (IF read_file(files[i], i).raised # "" THEN 1 ELSE 0),
                            ""))

\* lines 8-128
load_supported_documents(fd) ==
    IF ~fd.isdir THEN LoadDone(<<>>, 0, "")
    ELSE load_loop(fd.files, 1, LoadDone(<<>>, 0, ""))

NotLoaded == [docs |-> <<>>, files_with_errors |-> 0, escaped |-> "not called"]

LoadFolder ==
    /\ loaded = NotLoaded
    /\ loaded' = load_supported_documents(folder)
    /\ UNCHANGED <<folder, chunkArgs, chunked, ragVars, webVars, earlier, startVars, lazyVars, askVars, calcVars, ingestVars>>

----------------------------------------------------------------------------
(* src/document_processor.py: chunk_documents, with the                     *)
(* RecursiveCharacterTextSplitter it builds (texts are sequences of         *)
(* characters)                                                               *)

MaxTextLen == 5

TextChars == {"a", "b", " ", "\n"}
Whitespace == {" ", "\n"}

Texts == UNION {[1..n -> TextChars] : n \in 0..MaxTextLen}

\* the separators without the last one, the empty string
separators_without_empty == << <<"\n", "\n">>, <<"\n">>, <<" ">> >>

\* the default separators of RecursiveCharacterTextSplitter: "\n\n", "\n", " ", ""
separators == << <<"\n", "\n">>, <<"\n">>, <<" ">>, <<>> >>

RECURSIVE StripLeft(_)
StripLeft(t) == IF t # <<>> /\ t[1] \in Whitespace THEN StripLeft(Tail(t)) ELSE t

RECURSIVE StripRight(_)
StripRight(t) ==
    IF t # <<>> /\ t[Len(t)] \in Whitespace THEN StripRight(SubSeq(t, 1, Len(t) - 1)) ELSE t

\* str.strip() of a text with blanks and newlines
StripText(t) == StripLeft(StripRight(t))

RECURSIVE Concat(_)
\* "".join(parts)
Concat(parts) == IF parts = <<>> THEN <<>> ELSE Head(parts) \o Concat(Tail(parts))

RECURSIVE TotalLen(_)
TotalLen(parts) == IF parts = <<>> THEN 0 ELSE Len(Head(parts)) + TotalLen(Tail(parts))

\* sep occurs in text at place i
OccursAt(text, sep, i) == i + Len(sep) - 1 <= Len(text) /\ SubSeq(text, i, i + Len(sep) - 1) = sep

\* re.search(separator, text)
Occurs(text, sep) == \E i \in 1..Len(text) : OccursAt(text, sep, i)

RECURSIVE SplitAt(_, _, _, _, _)
\* re.split with the separator kept at the start of the piece that follows
\* it, scanning from place i with the piece cur under way
SplitAt(text, sep, i, cur, out) ==
    IF i > Len(text) THEN Append(out, cur)
    ELSE IF OccursAt(text, sep, i) THEN SplitAt(text, sep, i + Len(sep), sep, Append(out, cur))
    ELSE SplitAt(text, sep, i + 1, Append(cur, text[i]), out)

\* _split_text_with_regex(text, separator, keep_separator=True): the empty
\* separator gives the characters; empty pieces are dropped
split_text_with_regex(text, sep) ==
    IF sep = <<>>
    THEN [i \in 1..Len(text) |-> <<text[i]>>]
    ELSE SelectSeq(SplitAt(text, sep, 1, <<>>, <<>>), LAMBDA piece : piece # <<>>)

\* _join_docs with the separator "": the pieces joined and stripped; an
\* empty result is no chunk
join_docs(current_doc) ==
    IF StripText(Concat(current_doc)) = <<>> THEN <<>> ELSE <<StripText(Concat(current_doc))>>

RECURSIVE PopFront(_, _, _, _)
\* the while loop of _merge_splits: pieces leave the front of current_doc
\* while it is longer than the overlap, or too long for the next piece
PopFront(current_doc, len, chunk_size, chunk_overlap) ==
    IF TotalLen(current_doc) > chunk_overlap
         \/ (TotalLen(current_doc) + len > chunk_size /\ TotalLen(current_doc) > 0)
    THEN PopFront(Tail(current_doc), len, chunk_size, chunk_overlap)
    ELSE current_doc

RECURSIVE merge_splits(_, _, _, _, _, _)
\* TextSplitter._merge_splits(splits, separator="") from piece k on
merge_splits(splits, k, current_doc, docs, chunk_size, chunk_overlap) ==
    IF k > Len(splits) THEN docs \o join_docs(current_doc)
    ELSE IF TotalLen(current_doc) + Len(splits[k]) > chunk_size /\ current_doc # <<>>
    THEN merge_splits(splits, k + 1,
                      Append(PopFront(current_doc, Len(splits[k]), chunk_size, chunk_overlap), splits[k]),
                      docs \o join_docs(current_doc), chunk_size, chunk_overlap)
    ELSE merge_splits(splits, k + 1, Append(current_doc, splits[k]), docs, chunk_size, chunk_overlap)

\* the place in seps of the separator _split_text picks for text: the first
\* that is empty or occurs in the text, else the last one
PickedAt(text, seps) ==
    IF \E i \in 1..Len(seps) : seps[i] = <<>> \/ Occurs(text, seps[i])
    THEN CHOOSE i \in 1..Len(seps) :
            /\ seps[i] = <<>> \/ Occurs(text, seps[i])
            /\ \A j \in 1..(i - 1) : ~(seps[j] = <<>> \/ Occurs(text, seps[j]))
    ELSE Len(seps)

\* new_separators: what follows a separator that was found in the text
NewSeparators(text, seps) ==
    IF seps[PickedAt(text, seps)] # <<>> /\ Occurs(text, seps[PickedAt(text, seps)])
    THEN SubSeq(seps, PickedAt(text, seps) + 1, Len(seps))
    ELSE <<>>

Pieces(text, seps) == split_text_with_regex(text, seps[PickedAt(text, seps)])

RECURSIVE split_text(_, _, _, _, _, _, _)
\* RecursiveCharacterTextSplitter._split_text(text, separators), at piece k
\* of its loop with _good_splits = good and final_chunks = final
split_text(text, seps, k, good, final, chunk_size, chunk_overlap) ==
    IF k > Len(Pieces(text, seps))
    THEN final \o merge_splits(good, 1, <<>>, <<>>, chunk_size, chunk_overlap)
    ELSE IF Len(Pieces(text, seps)[k]) < chunk_size
    THEN split_text(text, seps, k + 1, Append(good, Pieces(text, seps)[k]), final, chunk_size, chunk_overlap)
    ELSE split_text(text, seps, k + 1, <<>>,
                    final \o merge_splits(good, 1, <<>>, <<>>, chunk_size, chunk_overlap)
                          \o (IF NewSeparators(text, seps) = <<>>
                              THEN <<Pieces(text, seps)[k]>>
                              ELSE split_text(Pieces(text, seps)[k], NewSeparators(text, seps), 1, <<>>, <<>>,
                                              chunk_size, chunk_overlap)),
                    chunk_size, chunk_overlap)

\* a metadata key the document does not have
NoKey == "(no key)"

\* a Document handed to chunk_documents: its text and its metadata
TextUnit(content, source, file_path, page, type) ==
    [content |-> content, source |-> source, file_path |-> file_path, page |-> page, type |-> type]

\* a chunk that copies no metadata from its parent
chunk_without_metadata(content, unit, start_index, parent) ==
    [content |-> content, source |-> "", file_path |-> "", page |-> 0,
     type |-> "", start_index |-> start_index, parent |-> parent]

\* a chunk: its text, the metadata copied from its parent, start_index, and
\* the place of the parent in the input
Chunk(content, unit, start_index, parent) ==
    [content |-> content, source |-> unit.source, file_path |-> unit.file_path, page |-> unit.page,
     type |-> unit.type, start_index |-> start_index, parent |-> parent]

\* the loop of lines 154-158 changing nothing
backfill_nothing(doc) == doc

\* lines 154-158: a document without "source" gets its file_path, or
\* "Unknown_Source_File" when it has none either
backfill_source(doc) ==
    IF doc.source = NoKey
    THEN [doc EXCEPT !.source = IF doc.file_path # NoKey THEN doc.file_path ELSE "Unknown_Source_File"]
    ELSE doc

\* text.find(chunk, start): the first place at or after start (counted
\* from 0) where chunk occurs, -1 when there is none
Find(text, chunk, start) ==
    IF \E i \in (start + 1)..(Len(text) + 1) : OccursAt(text, chunk, i) \/ (chunk = <<>> /\ i <= Len(text) + 1)
    THEN (CHOOSE i \in (start + 1)..(Len(text) + 1) :
             /\ OccursAt(text, chunk, i) \/ chunk = <<>>
             /\ \A j \in (start + 1)..(i - 1) : ~OccursAt(text, chunk, j) /\ chunk # <<>>) - 1
    ELSE -1

Max(a, b) == IF a > b THEN a ELSE b

RECURSIVE create_documents(_, _, _, _, _, _, _)
\* TextSplitter.create_documents for one parent with add_start_index=True:
\* the chunks texts[k..] of unit become Documents; index and
\* previous_chunk_len are the loop's variables
create_documents(unit, parent, texts, k, index, previous_chunk_len, chunk_overlap) ==
    IF k > Len(texts) THEN <<>>
    ELSE <<Chunk(texts[k], unit,
                 Find(unit.content, texts[k], Max(0, index + previous_chunk_len - chunk_overlap)),
                 parent)>>
         \o create_documents(unit, parent, texts, k + 1,
                             Find(unit.content, texts[k], Max(0, index + previous_chunk_len - chunk_overlap)),
                             Len(texts[k]), chunk_overlap)

RECURSIVE split_documents(_, _, _, _)
\* TextSplitter.split_documents: the chunks of each document in turn
split_documents(documents, i, chunk_size, chunk_overlap) ==
    IF i > Len(documents) THEN <<>>
    ELSE create_documents(documents[i], i,
                          split_text(documents[i].content, separators, 1, <<>>, <<>>, chunk_size, chunk_overlap),
                          1, 0, 0, chunk_overlap)
         \o split_documents(documents, i + 1, chunk_size, chunk_overlap)

ChunkDone(chunks, escaped) == [chunks |-> chunks, escaped |-> escaped]

\* lines 131-170
chunk_documents(documents, chunk_size, chunk_overlap) ==
    IF documents = <<>> THEN ChunkDone(<<>>, "")
    ELSE ChunkDone(split_documents([i \in 1..Len(documents) |-> backfill_source(documents[i])],
                                   1, chunk_size, chunk_overlap), "")

NotChunked == ChunkDone(<<>>, "not called")

\* the metadata the first document comes with: with or without source
\* and file_path
FirstUnits ==
    {TextUnit(t, src, fp, 1, "pdf") :
        t \in Texts, src \in {"a.pdf", NoKey}, fp \in {"data/a.pdf", NoKey}}

\* the documents after the first: none, or one text file
MoreUnits == {<<>>, <<TextUnit(<<"b", "a", " ", "a">>, "b.txt", "data/b.txt", NoKey, "txt")>>}

\* chunk_size and chunk_overlap (the splitter wants chunk_overlap <= chunk_size)
SizePairs == {<<2, 1>>, <<3, 1>>}

ChunkInputs ==
    {[documents |-> <<>>, chunk_size |-> z[1], chunk_overlap |-> z[2]] : z \in SizePairs}
    \cup {[documents |-> <<u>> \o more, chunk_size |-> z[1], chunk_overlap |-> z[2]] :
            u \in FirstUnits, more \in MoreUnits, z \in SizePairs}

ChunkDocuments ==
    /\ chunked = NotChunked
    /\ chunked' = chunk_documents(chunkArgs.documents, chunkArgs.chunk_size, chunkArgs.chunk_overlap)
    /\ UNCHANGED <<chunkArgs, folder, loaded, ragVars, webVars, earlier, startVars, lazyVars, askVars, calcVars, ingestVars>>

----------------------------------------------------------------------------
(* src/rag_chain_builder.py and query_internal_knowledge_base of            *)
(* src/autogen_tools.py: one knowledge-base query over the persisted        *)
(* collection                                                                *)

MaxQueries == 2
MaxEntries == 4

k_retriever == 3
snippet_limit == 1500

\* the questions asked
Questions == {"q1", "q2"}

\* the metadata and the length of the stored chunks: c1 is a long page of
\* a PDF, c2 a short text file (no page key)
ChunkSource(c) == IF c = "c1" THEN "a.pdf" ELSE "b.txt"
ChunkPage(c) == IF c = "c1" THEN 1 ELSE 0
ChunkLength(c) == IF c = "c1" THEN snippet_limit + 1 ELSE snippet_limit - 1

\* how far the embedding of a stored chunk is from the one of the question
Distance(q, c) == IF (q = "q1") = (c = "c1") THEN 1 ELSE 2

\* the collections an ingestion history can leave behind: none, or up to
\* MaxEntries entries of up to MaxRuns runs of up to MaxChunks chunks, older
\* runs first
Collections ==
    {es \in UNION {[1..n -> [chunk : ChunkIds, run : 1..MaxRuns]] : n \in 0..MaxEntries} :
        /\ \A i \in 1..(Len(es) - 1) : es[i].run <= es[i + 1].run
        /\ \A r \in 1..MaxRuns : Cardinality({i \in 1..Len(es) : es[i].run = r}) <= MaxChunks}

MinOf(a, b) == IF a <= b THEN a ELSE b

\* r lists the places of the k entries nearest to q, nearest first
IsNearestFirst(r, entries, q) ==
    /\ \A i, j \in 1..Len(r) : i # j => r[i] # r[j]
    /\ \A i, j \in 1..Len(r) : i < j => Distance(q, entries[r[i]].chunk) <= Distance(q, entries[r[j]].chunk)
    /\ \A x \in 1..Len(entries) :
          (\A i \in 1..Len(r) : r[i] # x)
              => \A i \in 1..Len(r) : Distance(q, entries[r[i]].chunk) <= Distance(q, entries[x].chunk)

\* a search that returns every entry, nearest first
similarity_search_all(entries, k, q) ==
    {r \in [1..Len(entries) -> 1..Len(entries)] : IsNearestFirst(r, entries, q)}

\* retriever.invoke(question) with search_kwargs {"k": k}: the k nearest
\* entries, or all of them when there are fewer; entries equally far come
\* in either order
similarity_search(entries, k, q) ==
    {r \in [1..MinOf(k, Len(entries)) -> 1..Len(entries)] : IsNearestFirst(r, entries, q)}

\* the Document of a stored entry
RetrievedDoc(e) ==
    [chunk |-> e.chunk, run |-> e.run, source |-> ChunkSource(e.chunk), page |-> ChunkPage(e.chunk),
     length |-> ChunkLength(e.chunk)]

\* doc.page_content without the cut
content_whole(doc) == [chunk |-> doc.chunk, length |-> doc.length]

\* line 55: doc.page_content[:1500], a text being its chunk and the number
\* of characters kept from its start
content_snippet(doc) == [chunk |-> doc.chunk, length |-> MinOf(doc.length, snippet_limit)]

\* lines 40-58: the sentinel for no documents, else for each document its
\* header "Source N (File: .., Page: ..)", its snippet and the separator
format_docs_with_sources(docs) ==
    IF docs = <<>> THEN <<"No context documents found.">>
    ELSE [i \in 1..Len(docs) |->
            [header |-> [n |-> (i - 1) + 1, file |-> docs[i].source,
                         page |-> IF docs[i].page = 0 THEN "N/A" ELSE docs[i].page],
             snippet |-> content_snippet(docs[i]),
             separator |-> "---"]]

\* the citation list with the first document only
sources_summary_first(docs) ==
    IF docs = <<>> THEN <<>>
    ELSE <<[source |-> docs[1].source, page |-> IF docs[1].page = 0 THEN "N/A" ELSE docs[1].page]>>

\* autogen_tools.py lines 45-50: "[Source: <file>, Page: <page>]" for each
\* document of context_docs
sources_summary(docs) ==
    [i \in 1..Len(docs) |-> [source |-> docs[i].source, page |-> IF docs[i].page = 0 THEN "N/A" ELSE docs[i].page]]

\* what a call of the tool with a question did.  kind: "cited" ("Answer:
\* .. Cited Sources: .."), "no_source" ("Answer: .. (No specific source
\* documents ..)"), "sorry" ("Sorry, an error occurred ..") or "" when
\* nothing was returned; escaped: the exception that left the tool;
\* context_docs and context: what the chain retrieved and handed to the
\* chat model; llm: what the chat model did ("not asked", "answers",
\* "raises")
RagDone(question, kind, answer, citations, context_docs, context, llm, escaped) ==
    [question |-> question, kind |-> kind, answer |-> answer, citations |-> citations,
     context_docs |-> context_docs, context |-> context, llm |-> llm, escaped |-> escaped]

NoQuery == RagDone("", "", "", <<>>, <<>>, <<>>, "not asked", "not called")

\* autogen_tools.py lines 41-60 for the documents the retriever gave: the
\* chat model answers or raises
tool_result(q, docs, llm) ==
    IF llm = "raises"
    THEN RagDone(q, "sorry", "", <<>>, docs, format_docs_with_sources(docs), llm, "")
    ELSE IF sources_summary(docs) # <<>>
    THEN RagDone(q, "cited", <<"answer to", q>>, sources_summary(docs), docs,
                 format_docs_with_sources(docs), llm, "")
    ELSE RagDone(q, "no_source", <<"answer to", q>>, <<>>, docs, format_docs_with_sources(docs), llm, "")

\* The cached chain queries the collection its vector-store instance opened.
\* When that collection has been deleted the query of the store raises
\* inside the chain (autogen_tools.py lines 57-60 turn it into the "Sorry"
\* answer) or finds nothing, depending on the store's version; it never
\* reaches the collection created afterwards.
stale_result(q, how, llm) ==
    IF how = "raises"
    THEN RagDone(q, "sorry", "", <<>>, <<>>, <<>>, "not asked", "")
    ELSE tool_result(q, <<>>, llm)

\* The tool is called with question q.  The first call builds the chain:
\* get_rag_chain raises without GOOGLE_API_KEY (before anything is cached);
\* with it, get_vector_store_instance opens the collection with Chroma(...),
\* which creates it when it does not exist.  Then the chain retrieves,
\* formats and asks the chat model.
QueryKnowledgeBase(q, llm) ==
    /\ queries < MaxQueries
    /\ queries' = queries + 1
    /\ IF ~handles.rag_chain /\ ~googleKey
       THEN /\ ragOut' = RagDone(q, "", "", <<>>, <<>>, <<>>, "not asked", "ValueError")
            /\ UNCHANGED <<handles, collExists>>
       ELSE IF handles.vector_store /\ handleStale
       THEN /\ \E how \in {"raises", "empty"} : ragOut' = stale_result(q, how, llm)
            /\ UNCHANGED <<handles, collExists>>
       ELSE /\ handles' = [rag_chain |-> TRUE, vector_store |-> TRUE]
            /\ collExists' = TRUE
            /\ \E r \in similarity_search(collEntries, k_retriever, q) :
                  ragOut' = tool_result(q, [i \in 1..Len(r) |-> RetrievedDoc(collEntries[r[i]])], llm)
    /\ UNCHANGED <<googleKey, collEntries, runs, ingestEnv, ingestLog, storeReturned, handleStale, uiMessage,
                   folder, loaded, chunkArgs, chunked, webVars, earlier, startVars, lazyVars, askVars, calcVars>>

----------------------------------------------------------------------------
(* perform_web_search of src/autogen_tools.py and the provider it calls *)

MaxSearches == 2
MaxProviderResults == 4

max_results == 3
web_snippet_limit == 250

SearchQueries == {"w1", "w2"}

\* one result of the provider: the length of its "content", -1 when the
\* key is missing
ResultItems == {[content |-> n] : n \in {-1, web_snippet_limit - 1, web_snippet_limit + 1}}

\* what tavily_search_tool.invoke(query) can do: raise, return a list of
\* results (the tool object is built with max_results=3 and hands that
\* number to the provider; the list is as long as the provider makes it),
\* return a text, or return something else
ProviderOutcomes ==
    {[kind |-> "raises", results |-> <<>>], [kind |-> "text", results |-> <<>>],
     [kind |-> "other", results |-> <<>>]}
    \cup {[kind |-> "list", results |-> rs] : rs \in UNION {[1..n -> ResultItems] : n \in 0..MaxProviderResults}}

\* lines 7-19: the tool object exists when the package imports and
\* TAVILY_API_KEY is set, else tavily_search_tool is None
tavily_search_tool(env) == IF env.package /\ env.key THEN "TavilySearchResults" ELSE "None"

\* what a call of perform_web_search did.  kind: "unavailable", "results",
\* "text", "no_results", "error", or "" when nothing was returned; items:
\* the numbered lines of the summary; provider: what the provider did
\* ("not called" when it was not called) and returned: the results it
\* gave; escaped: the exception that left the function
WebDone(query, kind, items, provider, escaped, returned) ==
    [query |-> query, kind |-> kind, items |-> items, provider |-> provider, escaped |-> escaped,
     returned |-> returned]

NoSearch == WebDone("", "", <<>>, "not called", "not called", <<>>)

\* the handler without its except clause
web_except_reraise(query) == WebDone(query, "", <<>>, "raises", "Exception", <<>>)

\* lines 117-120: "Error performing web search: .."
web_except(query) == WebDone(query, "error", <<>>, "raises", "", <<>>)

\* the summary with the whole content of each result
web_summary_whole(results) ==
    [i \in 1..Len(results) |->
        [n |-> (i - 1) + 1, snippet |-> IF results[i].content = -1 THEN 21 ELSE results[i].content]]

\* lines 104-111: one numbered line per result with the first 250
\* characters of its content ("No snippet available.", 21 characters, when
\* the key is missing)
web_summary(results) ==
    [i \in 1..Len(results) |->
        [n |-> (i - 1) + 1,
         snippet |-> MinOf(IF results[i].content = -1 THEN 21 ELSE results[i].content, web_snippet_limit)]]

\* lines 96-120
web_search_result(tool, query, outcome) ==
    IF tool = "None" THEN WebDone(query, "unavailable", <<>>, "not called", "", <<>>)
    ELSE IF outcome.kind = "raises" THEN web_except(query)
    ELSE IF outcome.kind = "list" /\ outcome.results # <<>>
    THEN WebDone(query, "results", web_summary(outcome.results), outcome.kind, "", outcome.results)
    ELSE IF outcome.kind = "text" THEN WebDone(query, "text", <<>>, outcome.kind, "", <<>>)
    ELSE WebDone(query, "no_results", <<>>, outcome.kind, "", outcome.results)

PerformWebSearch(query, outcome) ==
    /\ searches < MaxSearches
    /\ searches' = searches + 1
    /\ webOut' = web_search_result(tavily_search_tool(tavilyEnv), query, outcome)
    /\ UNCHANGED <<tavilyEnv, folder, loaded, chunkArgs, chunked, ragVars, earlier, startVars, lazyVars,
                   askVars, calcVars, ingestVars>>

----------------------------------------------------------------------------
(* The lazy initialisers of the module globals, called by the session      *)
(* threads of one process: get_autogen_agents (autogen_manager.py lines    *)
(* 19-101), get_rag_instance_for_tool (autogen_tools.py lines 21-28) and   *)
(* get_vector_store_instance (rag_chain_builder.py lines 19-38). None of   *)
(* them takes a lock, so each read and each assignment of a global is a    *)
(* step of its own.                                                        *)

\* the sessions of the application, each run by a thread of its own
Sessions == {"s1", "s2"}

\* a global that holds no instance yet; instances are numbered from 1
None == 0

\* a RAG chain is built over the vector-store instance it was given
Chain(id, store) == [id |-> id, store |-> store]

NoChain == Chain(None, None)

Thread(at, assistant, proxy, chain, local) ==
    [pc |-> at, assistant |-> assistant, proxy |-> proxy, chain |-> chain, local |-> local]

LazyIdle ==
    /\ threads = [t \in Sessions |-> Thread("get_autogen_agents", None, None, NoChain, NoChain)]
    /\ globals = [assistant_agent |-> None, user_proxy_agent |-> None,
                  rag_chain |-> NoChain, vector_store |-> None]
    /\ made = [assistant_agent |-> 0, user_proxy_agent |-> 0, rag_chain |-> 0, vector_store |-> 0]

Goto(t, at) == threads' = [threads EXCEPT ![t].pc = at]

\* autogen_manager.py line 24
CheckAgents(t) ==
    /\ threads[t].pc = "get_autogen_agents"
    /\ Goto(t, IF globals.assistant_agent = None \/ globals.user_proxy_agent = None
               THEN "make_assistant" ELSE "return_agents")
    /\ UNCHANGED <<globals, made>>

\* autogen_manager.py lines 68-86
MakeAssistant(t) ==
    /\ threads[t].pc = "make_assistant"
    /\ made' = [made EXCEPT !.assistant_agent = @ + 1]
    /\ globals' = [globals EXCEPT !.assistant_agent = made.assistant_agent + 1]
    /\ Goto(t, "make_proxy")

\* autogen_manager.py lines 88-99
MakeProxy(t) ==
    /\ threads[t].pc = "make_proxy"
    /\ made' = [made EXCEPT !.user_proxy_agent = @ + 1]
    /\ globals' = [globals EXCEPT !.user_proxy_agent = made.user_proxy_agent + 1]
    /\ Goto(t, "return_agents")

\* autogen_manager.py line 101 and app.py line 30
ReturnAgents(t) ==
    /\ threads[t].pc = "return_agents"
    /\ threads' = [threads EXCEPT ![t].pc = "get_rag_instance_for_tool",
                                  ![t].assistant = globals.assistant_agent,
                                  ![t].proxy = globals.user_proxy_agent]
    /\ UNCHANGED <<globals, made>>

get_autogen_agents(t) ==
    \/ CheckAgents(t)
    \/ MakeAssistant(t)
    \/ MakeProxy(t)
    \/ ReturnAgents(t)

\* autogen_tools.py line 25
CheckChain(t) ==
    /\ threads[t].pc = "get_rag_instance_for_tool"
    /\ Goto(t, IF globals.rag_chain = NoChain THEN "get_vector_store_instance" ELSE "return_chain")
    /\ UNCHANGED <<globals, made>>

\* rag_chain_builder.py line 27
CheckStore(t) ==
    /\ threads[t].pc = "get_vector_store_instance"
    /\ Goto(t, IF globals.vector_store = None THEN "make_store" ELSE "build_chain")
    /\ UNCHANGED <<globals, made>>

\* rag_chain_builder.py lines 32-36
MakeStore(t) ==
    /\ threads[t].pc = "make_store"
    /\ made' = [made EXCEPT !.vector_store = @ + 1]
    /\ globals' = [globals EXCEPT !.vector_store = made.vector_store + 1]
    /\ Goto(t, "build_chain")

\* rag_chain_builder.py line 38 and lines 88-89: the chain is built over the
\* instance the global holds when get_vector_store_instance returns
BuildChain(t) ==
    /\ threads[t].pc = "build_chain"
    /\ made' = [made EXCEPT !.rag_chain = @ + 1]
    /\ threads' = [threads EXCEPT ![t].pc = "assign_chain",
                                  ![t].local = Chain(made.rag_chain + 1, globals.vector_store)]
    /\ UNCHANGED globals

\* autogen_tools.py line 27
AssignChain(t) ==
    /\ threads[t].pc = "assign_chain"
    /\ globals' = [globals EXCEPT !.rag_chain = threads[t].local]
    /\ Goto(t, "return_chain")
    /\ UNCHANGED made

\* autogen_tools.py line 28 and line 39
ReturnChain(t) ==
    /\ threads[t].pc = "return_chain"
    /\ threads' = [threads EXCEPT ![t].pc = "done", ![t].chain = globals.rag_chain]
    /\ UNCHANGED <<globals, made>>

get_rag_instance_for_tool(t) ==
    \/ CheckChain(t)
    \/ CheckStore(t)
    \/ MakeStore(t)
    \/ BuildChain(t)
    \/ AssignChain(t)
    \/ ReturnChain(t)

\* one step of a session thread
SessionStep(t) ==
    /\ get_autogen_agents(t) \/ get_rag_instance_for_tool(t)
    /\ UNCHANGED <<openaiKey, startup, folder, loaded, chunkArgs, chunked, ragVars, webVars, earlier,
                   askVars, calcVars, ingestVars>>

----------------------------------------------------------------------------
(* The start of the process: the imports of app.py lines 4-6, which run    *)
(* src/config.py and the module level of src/autogen_tools.py              *)

Started(state, error, warnings, web_tool) ==
    [state |-> state, error |-> error, warnings |-> warnings, web_tool |-> web_tool]

NotStarted == Started("not started", "", {}, "None")

\* config.py lines 11-12: a missing GOOGLE_API_KEY is a printed warning
google_key_check(google) == IF google THEN {} ELSE {"WARNING: GOOGLE_API_KEY not found."}

\* autogen_tools.py lines 7-19: a missing key or package is a printed warning
tavily_check(env) ==
    IF ~env.package THEN {"WARNING: TavilySearchResults not found."}
    ELSE IF ~env.key THEN {"WARNING: Tavily Search tool not initialized due to missing TAVILY_API_KEY."}
    ELSE {}

\* config.py lines 8-14 and the imports that follow it: without
\* OPENAI_API_KEY the import raises ValueError and nothing else is loaded
import_modules(openai, google, tavily) ==
    IF ~openai
    THEN Started("failed", "ValueError: OPENAI_API_KEY not found in .env file.", google_key_check(google), "None")
    ELSE Started("running", "", google_key_check(google) \cup tavily_check(tavily), tavily_search_tool(tavily))

StartProcess ==
    /\ startup = NotStarted
    /\ startup' = import_modules(openaiKey, googleKey, tavilyEnv)
    /\ UNCHANGED <<openaiKey, folder, loaded, chunkArgs, chunked, ragVars, webVars, earlier, lazyVars,
                   askVars, calcVars, ingestVars>>

----------------------------------------------------------------------------
(* Specifications *)

AskInit ==
    /\ pc = "idle"
    /\ prompt = <<>>
    /\ chat = <<>>
    /\ counter = 0
    /\ display = <<>>
    /\ toolRuns = <<>>
    /\ endedBy = "none"

IngestInit ==
    /\ collExists = FALSE
    /\ collEntries = <<>>
    /\ runs = 0
    /\ ingestEnv = NoEnv
    /\ ingestLog = {}
    /\ storeReturned = FALSE
    /\ handleStale = FALSE
    /\ uiMessage = [text |-> "", stage |-> "", run |-> 0]

LoadIdle ==
    /\ folder = [isdir |-> FALSE, files |-> <<>>]
    /\ loaded = NotLoaded

ChunkIdle ==
    /\ chunkArgs = [documents |-> <<>>, chunk_size |-> 0, chunk_overlap |-> 0]
    /\ chunked = NotChunked

RagIdle ==
    /\ googleKey = TRUE
    /\ handles = [rag_chain |-> FALSE, vector_store |-> FALSE]
    /\ queries = 0
    /\ ragOut = NoQuery

WebIdle ==
    /\ tavilyEnv = [key |-> FALSE, package |-> TRUE]
    /\ searches = 0
    /\ webOut = NoSearch

SessionIdle ==
    /\ earlier = {}
    /\ openaiKey = TRUE
    /\ startup = NotStarted
    /\ LazyIdle

FnInit ==
    /\ LoadIdle
    /\ ChunkIdle
    /\ RagIdle
    /\ WebIdle
    /\ SessionIdle

Init ==
    /\ AskInit
    /\ calcExpr = <<>>
    /\ calcOut = NoCall
    /\ IngestInit
    /\ FnInit

Next ==
    \/ \E p \in Prompts : Ask(p)
    \/ \E out \in ModelOutputs : ModelTurn(out)
    \/ ModelError
    \/ ProxyStop
    \/ \E arg \in {"init_raises", "cited", "unavailable", "2+2", "none"} : ProxyFunctionReply(arg)
    \/ ProxyAutoReply
    \/ ShowConversation

Spec == Init /\ [][Next]_vars

InitCalc ==
    /\ AskInit
    /\ calcExpr \in Expressions
    /\ calcOut = NoCall
    /\ IngestInit
    /\ FnInit

NextCalc == CallCalculator

SpecCalc == InitCalc /\ [][NextCalc]_vars

NextIngest ==
    \/ \E e \in IngestEnvs : RunIngest(e)
    \/ \E e \in IngestEnvs : SidebarIngest(e)
    \/ \E e \in IngestEnvs : SidebarNoPdf(e)

SpecIngest == Init /\ [][NextIngest]_vars

\* the runs whose documents split into at most one chunk: every stage can
\* fail or come back empty, over whatever earlier runs left
StageEnvs == {e \in IngestEnvs : Len(e.chunks) <= 1}

NextStages ==
    \/ \E e \in StageEnvs : RunIngest(e)
    \/ \E e \in StageEnvs : SidebarIngest(e)
    \/ \E e \in StageEnvs : SidebarNoPdf(e)

SpecStages == Init /\ [][NextStages]_vars

InitLoad ==
    /\ AskInit
    /\ calcExpr = <<>>
    /\ calcOut = NoCall
    /\ IngestInit
    /\ folder \in Folders
    /\ loaded = NotLoaded
    /\ ChunkIdle
    /\ RagIdle
    /\ WebIdle
    /\ SessionIdle

NextLoad == LoadFolder

InitChunk ==
    /\ AskInit
    /\ calcExpr = <<>>
    /\ calcOut = NoCall
    /\ IngestInit
    /\ LoadIdle
    /\ chunkArgs \in ChunkInputs
    /\ chunked = NotChunked
    /\ RagIdle
    /\ WebIdle
    /\ SessionIdle

NextChunk == ChunkDocuments

\* the process that answers queries starts over a collection some
\* ingestion history left behind, or over none
InitRag ==
    /\ AskInit
    /\ calcExpr = <<>>
    /\ calcOut = NoCall
    /\ runs = 0
    /\ ingestEnv = NoEnv
    /\ ingestLog = {}
    /\ storeReturned = FALSE
    /\ handleStale = FALSE
    /\ uiMessage = [text |-> "", stage |-> "", run |-> 0]
    /\ LoadIdle
    /\ ChunkIdle
    /\ collEntries \in Collections
    /\ collExists \in BOOLEAN
    /\ ~collExists => collEntries = <<>>
    /\ googleKey \in BOOLEAN
    /\ handles = [rag_chain |-> FALSE, vector_store |-> FALSE]
    /\ queries = 0
    /\ ragOut = NoQuery
    /\ WebIdle
    /\ SessionIdle

NextRag == \E q \in Questions, llm \in {"answers", "raises"} : QueryKnowledgeBase(q, llm)

SpecRag == InitRag /\ [][NextRag]_vars

InitWeb ==
    /\ AskInit
    /\ calcExpr = <<>>
    /\ calcOut = NoCall
    /\ IngestInit
    /\ LoadIdle
    /\ ChunkIdle
    /\ RagIdle
    /\ tavilyEnv \in [key : BOOLEAN, package : BOOLEAN]
    /\ searches = 0
    /\ webOut = NoSearch
    /\ SessionIdle

NextWeb == \E query \in SearchQueries, outcome \in ProviderOutcomes : PerformWebSearch(query, outcome)

SpecWeb == InitWeb /\ [][NextWeb]_vars

\* the turns of the model in a session of several Asks: a text, a text with
\* TERMINATE before its end, a text that ends with TERMINATE and a blank, a
\* call of the calculator with content None
SessionOutputs ==
    {[content |-> Str(t), function_call |-> ""] :
        t \in {<<"a">>, <<"TERMINATE", " ", "a">>, <<"a", " ", "TERMINATE", " ">>}}
    \cup {[content |-> NoneVal, function_call |-> "simple_calculator"]}

NextSession ==
    \/ \E p \in Prompts : AskAgain(p)
    \/ \E out \in SessionOutputs : ModelTurn(out)
    \/ ModelError
    \/ ProxyStop
    \/ ProxyFunctionReply("2+2")
    \/ ProxyAutoReply
    \/ ShowConversation

SpecSession == Init /\ [][NextSession]_vars

\* a process started with any combination of the credentials, over a
\* collection with one entry
InitStart ==
    /\ AskInit
    /\ calcExpr = <<>>
    /\ calcOut = NoCall
    /\ collExists = TRUE
    /\ collEntries = <<Entry("c1", 1)>>
    /\ runs = 0
    /\ ingestEnv = NoEnv
    /\ ingestLog = {}
    /\ storeReturned = FALSE
    /\ handleStale = FALSE
    /\ uiMessage = [text |-> "", stage |-> "", run |-> 0]
    /\ LoadIdle
    /\ ChunkIdle
    /\ googleKey \in BOOLEAN
    /\ handles = [rag_chain |-> FALSE, vector_store |-> FALSE]
    /\ queries = 0
    /\ ragOut = NoQuery
    /\ tavilyEnv \in [key : BOOLEAN, package : BOOLEAN]
    /\ searches = 0
    /\ webOut = NoSearch
    /\ earlier = {}
    /\ openaiKey \in BOOLEAN
    /\ startup = NotStarted
    /\ LazyIdle

\* the tools are called in a process that has started
NextStart ==
    \/ StartProcess
    \/ \E q \in Questions, llm \in {"answers", "raises"} :
          startup.state = "running" /\ QueryKnowledgeBase(q, llm)
    \/ \E query \in SearchQueries, outcome \in ProviderOutcomes :
          startup.state = "running" /\ PerformWebSearch(query, outcome)

SpecStart == InitStart /\ [][NextStart]_vars

\* what the sidebar's ingestion can meet when the data folder holds PDFs
\* that load and split
ReingestEnvs ==
    {e \in IngestEnvs : e.pdf /\ e.docs /\ e.embedInit /\ e.verify /\ Len(e.chunks) = 1}

\* the running application: the sidebar button and knowledge-base queries
\* of the one process, in any order
NextReingest ==
    \/ \E e \in ReingestEnvs : SidebarIngest(e)
    \/ \E q \in Questions, llm \in {"answers", "raises"} : QueryKnowledgeBase(q, llm)

SpecReingest == Init /\ [][NextReingest]_vars

\* the session threads of one process, each asking for the agent pair and
\* then for the RAG chain, in any interleaving
NextThreads == \E t \in Sessions : SessionStep(t)

SpecThreads == Init /\ [][NextThreads]_vars

SpecChunk == InitChunk /\ [][NextChunk]_vars

SpecLoad == InitLoad /\ [][NextLoad]_vars

----------------------------------------------------------------------------
(* Properties of the agent loop (Spec) *)

\* the turns of the model in the conversation
IsModelTurn(m) == m.sender = "KnowledgeExplorerAssistant"

\* a text without the sentinel at its end and without the blanks before it
WithoutSentinel(toks) ==
    rstrip(SubSeq(rstrip(toks), 1, Len(rstrip(toks)) - 1))

\* C1: whenever the model produces a text-only turn whose right-trimmed
\* content ends with TERMINATE, the loop terminates, and the final answer
\* displayed for that Ask is the content with the TERMINATE token and the
\* trailing whitespace stripped.
C1_SentinelStripped ==
    /\ [][(pc = "proxy_received" /\ Last(chat).function_call = "" /\ Last(chat).content.kind = "str"
              /\ endswith(rstrip(Last(chat).content.toks), "TERMINATE"))
            => (pc' = "chat_done" /\ (counter < max_consecutive_auto_reply => endedBy' = "sentinel"))]_vars
    /\ [](pc = "idle" /\ endedBy = "sentinel"
            => Last(display).content = Str(WithoutSentinel(Last(chat).content.toks)))

\* the texts of the model in the conversation that are not empty and not
\* tool calls
SubstantiveTurns ==
    {i \in 1..Len(chat) : /\ IsModelTurn(chat[i])
                          /\ chat[i].function_call = ""
                          /\ Truthy(chat[i].content)
                          /\ strip(chat[i].content.toks) # <<>>}

\* the auto-replies of the proxy in the conversation (all it sent but the prompt)
AutoReplies == Cardinality({i \in 2..Len(chat) : chat[i].sender = "UserProxy"})

MostRecent(S) == CHOOSE i \in S : \A j \in S : j <= i

\* C2: if the model never emits the sentinel, the loop stops after exactly
\* 5 auto-replies, and the result is the most recent non-empty,
\* non-tool-call assistant text of that Ask, or the fixed fallback string if
\* there is none.
C2_BudgetResult ==
    (pc = "idle" /\ endedBy = "budget")
        => /\ AutoReplies = 5
           /\ IF SubstantiveTurns = {}
              THEN Last(display).content = Str(FallbackText)
              ELSE \E k \in 1..Len(display) : display[k].content = chat[MostRecent(SubstantiveTurns)].content

\* the three tools the specification names
RegisteredTools == {"query_internal_knowledge_base", "simple_calculator", "perform_web_search"}

\* the model's last turn asks for a tool that is not registered
UnregisteredRequest ==
    /\ pc = "proxy_received"
    /\ Last(chat).function_call # ""
    /\ Last(chat).function_call \notin RegisteredTools

IsErrorTurn(m) ==
    /\ m.role = "function"
    /\ m.content.kind = "str"
    /\ m.content.toks # <<>>
    /\ m.content.toks[1] = "Error:"

C7_ToolExceptionBecomesTurn ==
    [][(Len(toolRuns') = Len(toolRuns) + 1 /\ Last(toolRuns').outcome = "raise")
         => /\ Len(chat') = Len(chat) + 1
            /\ IsErrorTurn(Last(chat'))
            /\ pc' = "awaiting_model"
            /\ endedBy' = "none"
            /\ display' = display]_vars

\* the lazy initialisation raised during this Ask, and the Ask still ended
\* on the sentinel
C7_Witness ==
    /\ pc = "idle"
    /\ endedBy = "sentinel"
    /\ \E i \in 1..Len(toolRuns) :
          toolRuns[i] = [name |-> "query_internal_knowledge_base", outcome |-> "raise"]
    /\ \E i \in 1..Len(chat) : IsErrorTurn(chat[i]) /\ chat[i].name = "query_internal_knowledge_base"

----------------------------------------------------------------------------
(* Properties of simple_calculator (SpecCalc) *)

Called == calcOut # NoCall

\* the characters the specification allows in an expression
SpecChars == {"0", "1", "2", "3", "4", "5", "6", "7", "8", "9",
              "+", "-", "*", "/", "(", ")", ".", " "}

OnlySpecChars(s) == \A i \in 1..Len(s) : s[i] \in SpecChars

\* C4: simple_calculator evaluates an expression only if every character
\* of it is an allowed one and it contains no disallowed keyword; every
\* other input gets an error string and never reaches the evaluator.
C4_EvaluatesOnlyValidated ==
    Called =>
        /\ calcOut.evaluated => (OnlySpecChars(calcExpr) /\ ~any_keyword(calcExpr))
        /\ ~(OnlySpecChars(calcExpr) /\ ~any_keyword(calcExpr))
              => (~calcOut.evaluated /\ calcOut.ret.head = "Error:" /\ calcOut.escaped = "")

\* an expression with a character outside the allowed set came back as an
\* error without being evaluated
C4_Witness ==
    /\ Called
    /\ \E i \in 1..Len(calcExpr) : calcExpr[i] = "_"
    /\ \E i \in 1..Len(calcExpr) : calcExpr[i] = "2"
    /\ ~calcOut.evaluated
    /\ calcOut.ret.head = "Error:"

\* C5: for every input simple_calculator returns a string and lets no
\* exception escape; a division by zero, the empty expression and every
\* expression that fails to parse give a string starting with "Error:".
C5_AlwaysReturnsString ==
    Called =>
        /\ calcOut.escaped = ""
        /\ calcOut.ret.head \in {"Error:", "The result of"}
        /\ calcExpr \in {<<"2", "/", "0">>, <<>>, <<"2", "+">>, <<"(", "2">>} => calcOut.ret.head = "Error:"
        /\ (calcOut.evaluated /\ IsExc(eval(calcExpr))) => calcOut.ret.head = "Error:"

\* the division by zero was evaluated and came back as an error string
C5_Witness ==
    /\ Called
    /\ calcExpr = <<"2", "/", "0">>
    /\ calcOut.evaluated
    /\ calcOut.escaped = ""
    /\ calcOut.ret.head = "Error:"

\* the value of an expression in plain arithmetic: decimal numerals, + - *
\* / and parentheses
ArithmeticValue(s) == Evaluate(s, FALSE)

\* C6: for every well-formed arithmetic expression over numeric literals,
\* + - * / and parentheses that does not divide by zero, simple_calculator
\* returns "The result of '<expr>' is <value>." with the arithmetic value
\* of the expression.
C6_WellFormedGivesValue ==
    (Called /\ IsNum(ArithmeticValue(calcExpr)))
        => /\ calcOut.ret.head = "The result of"
           /\ calcOut.ret.expr = calcExpr
           /\ IsNum(calcOut.ret.value)
           /\ calcOut.ret.value.n * ArithmeticValue(calcExpr).d
                 = ArithmeticValue(calcExpr).n * calcOut.ret.value.d

----------------------------------------------------------------------------
(* Properties of the ingestion (SpecIngest) *)

ReportedSuccessful == "INFO: Document ingestion process completed successfully!" \in ingestLog

\* C8: after any sequence of recreate ingestions, a Rebuild that is
\* reported successful leaves the collection holding exactly the entries
\* of the chunks passed to that Rebuild: the count is the number of chunks
\* and no entry of an earlier run remains.
C8_RebuildLeavesOnlyNewChunks ==
    ReportedSuccessful
        => /\ collExists
           /\ Len(collEntries) = Len(ingestEnv.chunks)
           /\ \A i \in 1..Len(collEntries) : collEntries[i].run = runs
           /\ collEntries = Entries(ingestEnv.chunks, runs)

\* the last run reached create_or_get_vector_store and the embedding or the
\* insertion of a chunk failed there
RebuildFailed ==
    /\ runs > 0
    /\ ingestEnv.files
    /\ ingestEnv.chunks # <<>>
    /\ ingestEnv.embedInit
    /\ ingestEnv.insert # "ok"

\* C9: if embedding or insertion of any chunk fails, create_or_get_vector_store
\* returns no store, ingestion prints an error and never prints that it
\* completed successfully, and the partially written collection is not
\* presented as authoritative (nobody is told the ingestion succeeded).
C9_RebuildAllOrNothing ==
    RebuildFailed
        => /\ ~storeReturned
           /\ "ERROR: Failed to create or update vector store" \in ingestLog
           /\ ~ReportedSuccessful
           /\ ~(uiMessage.run = runs /\ uiMessage.text = "Documents ingested successfully!")

\* the stage of the last run that failed, "" when none did
FailedStage ==
    IF ~ingestEnv.files \/ ~ingestEnv.docs THEN "load"
    ELSE IF ingestEnv.chunks = <<>> THEN "chunk"
    ELSE IF ~ingestEnv.embedInit THEN "embedding initialisation"
    ELSE IF ~ingestEnv.delete THEN "collection delete"
    ELSE IF ingestEnv.insert # "ok" THEN "insert"
    ELSE ""

\* C10: an ingestion requested from the UI is reported successful only if
\* every stage succeeded; whenever a stage fails the user is told which
\* stage failed and no success message is shown.
C10_UiSuccessOnlyIfAllStages ==
    (runs > 0 /\ uiMessage.run = runs)
        => IF FailedStage = ""
           THEN TRUE
           ELSE /\ uiMessage.text # "Documents ingested successfully!"
                /\ uiMessage.stage = FailedStage

----------------------------------------------------------------------------
(* Properties of load_supported_documents (SpecLoad) *)

Loaded == loaded # NotLoaded

\* the places of the folder's files with a supported extension
SupportedFiles ==
    {i \in 1..Len(folder.files) :
        folder.files[i].ext \in {<<".", "p", "d", "f">>, <<".", "P", "D", "F">>,
                                 <<".", "t", "x", "t">>, <<".", "m", "d">>}}

\* the file fails to open, parse or decode
Fails(i) == ~folder.files[i].opens \/ \E p \in 1..Len(folder.files[i].parts) : folder.files[i].parts[p] = "raise"

\* the returned units that come from part p of file i
UnitsOf(i, p) == {k \in 1..Len(loaded.docs) : loaded.docs[k].file = i /\ loaded.docs[k].part = p}

IsPdf(i) == folder.files[i].ext \in {<<".", "p", "d", "f">>, <<".", "P", "D", "F">>}

\* C11: the loader never aborts the batch because of one file: a file that
\* fails to open, parse or decode contributes no unit, and every other
\* supported file is still processed and its units are returned.
C11_OneFileNeverAbortsBatch ==
    Loaded =>
        /\ loaded.escaped = ""
        /\ \A i \in SupportedFiles :
              IF Fails(i)
              THEN \A p \in 1..Len(folder.files[i].parts) : UnitsOf(i, p) = {}
              ELSE \A p \in 1..Len(folder.files[i].parts) :
                      folder.files[i].parts[p] = "text" => UnitsOf(i, p) # {}

\* the first file failed and the unit of the second one was returned
C11_Witness ==
    /\ Loaded
    /\ Len(folder.files) = 2
    /\ SupportedFiles = {1, 2}
    /\ Fails(1)
    /\ ~Fails(2)
    /\ UnitsOf(2, 1) # {}
    /\ loaded.files_with_errors = 1

\* the units returned for part p of file i are exactly one, with the page
\* number of a PDF page and none for a text file
ExactlyOneUnit(i, p) ==
    /\ Cardinality(UnitsOf(i, p)) = 1
    /\ \A k \in UnitsOf(i, p) : loaded.docs[k].page = (IF IsPdf(i) THEN p ELSE 0)

\* C12 as stated: exactly one unit per PDF page whose text is not only
\* whitespace (page number = page index + 1) and exactly one per .txt/.md
\* file whose content is not only whitespace; whitespace-only pages and
\* files produce no unit.
C12_OneUnitPerPage ==
    Loaded =>
        \A i \in SupportedFiles : \A p \in 1..Len(folder.files[i].parts) :
            /\ folder.files[i].parts[p] = "text" => ExactlyOneUnit(i, p)
            /\ folder.files[i].parts[p] = "blank" => UnitsOf(i, p) = {}

\* C12 amended: for every supported file that is read without an error,
\* exactly one unit per PDF page whose text is not only whitespace (page
\* number = page index + 1) and exactly one per .txt/.md file whose content
\* is not only whitespace; whitespace-only pages and files produce no unit,
\* and a file with an unreadable page produces none at all; nothing else is
\* returned.
C12_OneUnitPerPageOfReadFiles ==
    Loaded =>
        /\ \A i \in SupportedFiles : \A p \in 1..Len(folder.files[i].parts) :
              /\ (~Fails(i) /\ folder.files[i].parts[p] = "text") => ExactlyOneUnit(i, p)
              /\ (Fails(i) \/ folder.files[i].parts[p] # "text") => UnitsOf(i, p) = {}
        /\ \A k \in 1..Len(loaded.docs) :
              /\ loaded.docs[k].file \in SupportedFiles
              /\ loaded.docs[k].part \in 1..Len(folder.files[loaded.docs[k].file].parts)

\* a PDF with a blank first page and a text on its second page gave one
\* unit, of page 2
C12_Witness ==
    /\ Loaded
    /\ Len(folder.files) >= 1
    /\ IsPdf(1)
    /\ folder.files[1].parts = <<"blank", "text">>
    /\ \E k \in 1..Len(loaded.docs) : loaded.docs[k].file = 1 /\ loaded.docs[k].page = 2
    /\ UnitsOf(1, 1) = {}

----------------------------------------------------------------------------
(* Properties of chunk_documents (SpecChunk) *)

Chunked == chunked # NotChunked

\* C13: every chunk returned by chunk_documents has at most chunk_size
\* characters, for every input unit and every separator path of the
\* recursive split.
C13_ChunkSizeIsCap ==
    Chunked => \A k \in 1..Len(chunked.chunks) : Len(chunked.chunks[k].content) <= chunkArgs.chunk_size

\* a text of five letters without any separator came back in pieces of at
\* most chunk_size characters
C13_Witness ==
    /\ Chunked
    /\ chunkArgs.documents # <<>>
    /\ chunkArgs.documents[1].content = <<"a", "b", "b", "a", "b">>
    /\ chunkArgs.chunk_size = 2
    /\ Len(chunked.chunks) >= 3
    /\ \A k \in 1..Len(chunked.chunks) : Len(chunked.chunks[k].content) <= 2

Min3(a, b, c) == IF a <= b /\ a <= c THEN a ELSE IF b <= c THEN b ELSE c

\* C14: for any two consecutive chunks of the same parent, the trailing
\* chunk_overlap characters of chunk i equal the leading characters of
\* chunk i+1 (bounded by the lengths of the two contents).
C14_ConsecutiveChunksOverlap ==
    Chunked =>
        \A k \in 1..(Len(chunked.chunks) - 1) :
            chunked.chunks[k].parent = chunked.chunks[k + 1].parent =>
                LET a == chunked.chunks[k].content
                    b == chunked.chunks[k + 1].content
                    n == Min3(chunkArgs.chunk_overlap, Len(a), Len(b))
                IN SubSeq(a, Len(a) - n + 1, Len(a)) = SubSeq(b, 1, n)

\* the chunks made from the document at place i of the input
ChunksOf(i) == {k \in 1..Len(chunked.chunks) : chunked.chunks[k].parent = i}

\* C15 as stated: when a parent has no source in its metadata,
\* chunk_documents does not fail and every chunk of that parent carries
\* source = "Unknown_Source_File".
C15_MissingSourceBackfilled ==
    Chunked =>
        /\ chunked.escaped = ""
        /\ \A i \in 1..Len(chunkArgs.documents) :
              chunkArgs.documents[i].source = NoKey
                  => \A k \in ChunksOf(i) : chunked.chunks[k].source = "Unknown_Source_File"

\* C15 amended: when a parent has no source in its metadata, chunk_documents
\* does not fail and every chunk of that parent carries as source the
\* parent's file_path, or "Unknown_Source_File" when the parent has no
\* file_path either.
C15_MissingSourceFromFilePath ==
    Chunked =>
        /\ chunked.escaped = ""
        /\ \A i \in 1..Len(chunkArgs.documents) :
              chunkArgs.documents[i].source = NoKey
                  => \A k \in ChunksOf(i) :
                        chunked.chunks[k].source =
                            (IF chunkArgs.documents[i].file_path = NoKey
                             THEN "Unknown_Source_File"
                             ELSE chunkArgs.documents[i].file_path)

\* a parent without source and file_path was chunked, and its chunks carry
\* the fallback name
C15_Witness ==
    /\ Chunked
    /\ chunkArgs.documents # <<>>
    /\ chunkArgs.documents[1].source = NoKey
    /\ chunkArgs.documents[1].file_path = NoKey
    /\ Cardinality(ChunksOf(1)) >= 2
    /\ \A k \in ChunksOf(1) : chunked.chunks[k].source = "Unknown_Source_File"

----------------------------------------------------------------------------
(* Claims about a knowledge-base query *)

\* the last call of the tool ran the chain
Retrieved == ragOut.llm # "not asked"

DistanceOf(d) == Distance(ragOut.question, d.chunk)

\* how often the entry of document d is in a list of entries or documents
TimesIn(d, list) == Cardinality({i \in 1..Len(list) : list[i].chunk = d.chunk /\ list[i].run = d.run})

PageShown(d) == IF d.page = 0 THEN "N/A" ELSE d.page

\* C17: the context built from the retrieved chunks is never blank: it is
\* exactly the sentinel "No context documents found." for no chunks; else
\* it has one part per chunk, in their order, the N-th made of the header
\* with N, the chunk's file and its page (or N/A), of the first 1500
\* characters of the chunk at most, and of the separator.
C17_ContextNeverBlank ==
    Retrieved =>
        LET docs == ragOut.context_docs
            context == ragOut.context IN
        /\ context # <<>>
        /\ docs = <<>> => context = <<"No context documents found.">>
        /\ docs # <<>> =>
              /\ Len(context) = Len(docs)
              /\ \A i \in 1..Len(docs) :
                    /\ context[i].header = [n |-> i, file |-> docs[i].source, page |-> PageShown(docs[i])]
                    /\ context[i].snippet.chunk = docs[i].chunk
                    /\ context[i].snippet.length <= snippet_limit
                    /\ context[i].snippet.length = MinOf(docs[i].length, snippet_limit)
                    /\ context[i].separator = "---"

\* several chunks were formatted, one longer than 1500 characters and one
\* without a page
C17_Witness ==
    /\ Retrieved
    /\ Len(ragOut.context) >= 2
    /\ \E i \in 1..Len(ragOut.context_docs) : ragOut.context_docs[i].length > snippet_limit
    /\ \E i \in 1..Len(ragOut.context_docs) : ragOut.context_docs[i].page = 0

\* C18 as stated: every call of the tool returns a string that includes
\* the synthesized answer, with one citation per retrieved chunk in
\* retrieval order, or the note that no source was matched.
C18_AlwaysIncludesAnswer ==
    queries > 0 =>
        /\ ragOut.kind \in {"cited", "no_source"}
        /\ ragOut.answer = <<"answer to", ragOut.question>>

\* C18: when the chat model gave an answer, the returned string includes
\* it; with retrieved chunks it also has one citation (file, page or N/A)
\* per chunk, in retrieval order; with none, it has the note that no
\* source was matched instead.
C18_AnswerWithCitations ==
    ragOut.llm = "answers" =>
        LET docs == ragOut.context_docs IN
        /\ ragOut.escaped = ""
        /\ ragOut.answer = <<"answer to", ragOut.question>>
        /\ docs # <<>> =>
              /\ ragOut.kind = "cited"
              /\ Len(ragOut.citations) = Len(docs)
              /\ \A i \in 1..Len(docs) :
                    ragOut.citations[i] = [source |-> docs[i].source, page |-> PageShown(docs[i])]
        /\ docs = <<>> =>
              /\ ragOut.kind = "no_source"
              /\ ragOut.citations = <<>>

\* an answer was returned with the citations of several chunks of
\* different files
C18_Witness ==
    /\ ragOut.llm = "answers"
    /\ ragOut.kind = "cited"
    /\ Len(ragOut.citations) >= 2
    /\ \E i, j \in 1..Len(ragOut.citations) : ragOut.citations[i].source # ragOut.citations[j].source

\* C19: a query made while the collection does not exist returns a
\* "knowledge base unavailable" answer: no exception leaves the tool and
\* the chat model is not asked to answer over an empty knowledge base.
C19_NeverIngestedIsUnavailable ==
    [][(~collExists /\ queries' = queries + 1)
          => (ragOut'.escaped = "" /\ ragOut'.llm = "not asked" /\ ragOut'.kind = "unavailable")]_vars

----------------------------------------------------------------------------
(* Claims about the web search *)

\* C20: perform_web_search always returns a text and raises nothing: with
\* no provider (TAVILY_API_KEY or the package missing) it returns the
\* unavailability message and the provider is not called; when the
\* provider call raises, it returns the error text.
C20_WebSearchNeverFails ==
    searches > 0 =>
        /\ webOut.escaped = ""
        /\ webOut.kind # ""
        /\ (~tavilyEnv.key \/ ~tavilyEnv.package) => (webOut.kind = "unavailable" /\ webOut.provider = "not called")
        /\ webOut.provider = "raises" => webOut.kind = "error"

\* a search whose provider call raised came back with the error text
C20_Witness ==
    /\ searches > 0
    /\ tavilyEnv.key /\ tavilyEnv.package
    /\ webOut.provider = "raises"
    /\ webOut.kind = "error"

\* C21 as stated: a summary lists at most 3 results, numbered from 1,
\* whatever number of results the provider returned, each with at most 250
\* characters of content.
C21_SummaryListsAtMostThree ==
    webOut.kind = "results" =>
        /\ Len(webOut.items) <= max_results
        /\ \A i \in 1..Len(webOut.items) : webOut.items[i].n = i /\ webOut.items[i].snippet <= web_snippet_limit

\* C21: a summary lists every result the provider returned, numbered from
\* 1 in the provider's order, each with at most 250 characters of its
\* content; so it lists at most 3 results whenever the provider returned
\* no more than the 3 it was asked for.
C21_SummaryListsProviderResults ==
    webOut.kind = "results" =>
        /\ Len(webOut.items) = Len(webOut.returned)
        /\ Len(webOut.returned) <= max_results => Len(webOut.items) <= max_results
        /\ \A i \in 1..Len(webOut.items) :
              /\ webOut.items[i].n = i
              /\ webOut.items[i].snippet <= web_snippet_limit
              /\ webOut.returned[i].content >= 0
                    => webOut.items[i].snippet = MinOf(webOut.returned[i].content, web_snippet_limit)

\* a summary of 3 results, one of them with more than 250 characters of
\* content
C21_Witness ==
    /\ webOut.kind = "results"
    /\ Len(webOut.items) = max_results
    /\ \E i \in 1..Len(webOut.returned) : webOut.returned[i].content > web_snippet_limit

----------------------------------------------------------------------------
(* More claims about ingestion (SpecIngest) *)

\* the stage of the last run that failed first: "" when load, chunk and
\* embedding initialisation all worked
EarlyFailure(e) ==
    IF ~e.files THEN "ERROR: No files found"
    ELSE IF ~e.docs THEN "ERROR: No documents were loaded"
    ELSE IF e.chunks = <<>> THEN "ERROR: No chunks were created"
    ELSE IF ~e.embedInit THEN "ERROR: Failed to initialize embedding function"
    ELSE ""

\* C24: a run whose loading gives no documents, whose chunking gives no
\* chunks or whose embedding function cannot be initialised reports that
\* stage, the first that failed in the order load, chunk, embedding
\* initialisation, and no later one, and leaves the existing collection as
\* it was: nothing is deleted, nothing is added.
C24_EarlyFailureLeavesCollection ==
    [][(runs' = runs + 1 /\ EarlyFailure(ingestEnv') # "")
          => /\ collExists' = collExists
             /\ collEntries' = collEntries
             /\ ingestLog' = {EarlyFailure(ingestEnv')}
             /\ ~storeReturned']_vars

\* a run over an existing collection stopped at the embedding
\* initialisation, although its deletion and its insertion would have
\* worked, and the collection still holds the entries of the run before
C24_Witness ==
    /\ runs = 2
    /\ ingestEnv.docs /\ ~ingestEnv.embedInit /\ ingestEnv.delete /\ ingestEnv.insert = "ok"
    /\ collExists
    /\ collEntries # <<>>
    /\ \A i \in 1..Len(collEntries) : collEntries[i].run = 1
    /\ ingestLog = {"ERROR: Failed to initialize embedding function"}

----------------------------------------------------------------------------
(* More claims about a knowledge-base query (SpecRag) *)

\* the step is a query that opens the collection (its first use of the
\* vector store)
OpensCollection == queries' = queries + 1 /\ ~handles.vector_store /\ handles'.vector_store

\* C27: opening the collection for a query deletes nothing, and when the
\* collection does not exist it fails with a not-found error and creates
\* no collection.
C27_OpeningNeverCreates ==
    [][OpensCollection
          => /\ collEntries' = collEntries
             /\ ~collExists => (~collExists' /\ ragOut'.escaped = "NotFoundError")]_vars

----------------------------------------------------------------------------
(* More claims about chunk_documents (SpecChunk) *)

\* C28: every chunk is a contiguous fragment of exactly one input unit,
\* found in that unit's text at the chunk's start_index, and its source,
\* page and type are that unit's (the source of a unit that has one; the
\* filling in of a missing one is C15); the chunks come unit by unit, in
\* the order of the input.
C28_ChunkWithinOneUnit ==
    Chunked =>
        /\ \A k \in 1..Len(chunked.chunks) :
              LET c == chunked.chunks[k] IN
              /\ c.parent \in 1..Len(chunkArgs.documents)
              /\ c.start_index >= 0
              /\ c.start_index + Len(c.content) <= Len(chunkArgs.documents[c.parent].content)
              /\ c.content = SubSeq(chunkArgs.documents[c.parent].content,
                                    c.start_index + 1, c.start_index + Len(c.content))
              /\ c.page = chunkArgs.documents[c.parent].page
              /\ c.type = chunkArgs.documents[c.parent].type
              /\ c.file_path = chunkArgs.documents[c.parent].file_path
              /\ chunkArgs.documents[c.parent].source # NoKey => c.source = chunkArgs.documents[c.parent].source
        /\ \A k \in 1..(Len(chunked.chunks) - 1) : chunked.chunks[k].parent <= chunked.chunks[k + 1].parent

\* two units of different files were chunked, each into several chunks
C28_Witness ==
    /\ Chunked
    /\ Len(chunkArgs.documents) = 2
    /\ chunkArgs.documents[1].source = "a.pdf"
    /\ Cardinality(ChunksOf(1)) >= 2
    /\ Cardinality(ChunksOf(2)) >= 2
    /\ \A k \in ChunksOf(1) : chunked.chunks[k].source = "a.pdf" /\ chunked.chunks[k].page = 1
    /\ \A k \in ChunksOf(2) : chunked.chunks[k].source = "b.txt" /\ chunked.chunks[k].page = NoKey

----------------------------------------------------------------------------
(* Claims about a session of several Asks (SpecSession) *)

\* the step is the start of an Ask
AskStarts == pc = "idle" /\ pc' = "awaiting_model"

\* C23: whatever the earlier Asks left behind, the conversation a new Ask
\* starts from holds the new user message and nothing else, the
\* auto-reply count is 0 and no tool call of an earlier Ask is kept.
C23_AskStartsClean ==
    [][AskStarts
          => /\ Len(chat') = 1
             /\ chat'[1].content = Str(prompt')
             /\ chat'[1].function_call = ""
             /\ chat'[1].sender = "UserProxy"
             /\ counter' = 0
             /\ toolRuns' = <<>>]_vars

\* an Ask has started clean after earlier Asks that ended by the sentinel,
\* by the budget and by an error
C23_Witness ==
    /\ earlier = {"sentinel", "budget", "error"}
    /\ pc = "awaiting_model"
    /\ chat = <<[role |-> "assistant", content |-> Str(prompt), function_call |-> "", name |-> "",
                 sender |-> "UserProxy"]>>
    /\ counter = 0

\* the content is a string whose right-trimmed text ends with TERMINATE
EndsWithSentinel(m) ==
    /\ m.content.kind = "str"
    /\ rstrip(m.content.toks) # <<>>
    /\ rstrip(m.content.toks)[Len(rstrip(m.content.toks))] = "TERMINATE"

HasSentinel(m) == m.content.kind = "str" /\ \E i \in 1..Len(m.content.toks) : m.content.toks[i] = "TERMINATE"

\* C30: while fewer than 5 auto-replies were given, the proxy ends the
\* loop on a turn of the model if and only if the turn's content is a
\* string whose right-trimmed text ends with TERMINATE; a tool call with
\* content None and a text with TERMINATE only before its end are answered
\* and the loop goes on.
C30_TerminatesIffSentinelAtEnd ==
    [][(pc = "proxy_received" /\ pc' # pc /\ counter < max_consecutive_auto_reply)
          => /\ (pc' = "chat_done") <=> EndsWithSentinel(Last(chat))
             /\ pc' = "chat_done" => endedBy' = "sentinel"
             /\ ~EndsWithSentinel(Last(chat)) => (pc' = "awaiting_model" /\ Len(chat') = Len(chat) + 1)]_vars

\* a text with TERMINATE before its end and a tool call with content None
\* were answered, and a later text that ends with TERMINATE and a blank
\* ended the loop
C30_Witness ==
    /\ pc = "chat_done"
    /\ endedBy = "sentinel"
    /\ EndsWithSentinel(Last(chat))
    /\ \E i \in 1..(Len(chat) - 2) :
          IsModelTurn(chat[i]) /\ HasSentinel(chat[i]) /\ ~EndsWithSentinel(chat[i])
    /\ \E i \in 1..(Len(chat) - 2) :
          IsModelTurn(chat[i]) /\ chat[i].function_call # "" /\ chat[i].content.kind = "none"

----------------------------------------------------------------------------
(* The order of the turns within one Ask (Spec) *)

\* every tool result stands right after the turn of the model that asked
\* for that tool, every request of the model that is not the last turn is
\* followed by its result, the model speaks only after a turn of the
\* proxy, and only the last turn can be one that ends with TERMINATE
TurnsInOrder ==
    /\ \A i \in 1..Len(chat) :
          chat[i].role = "function"
              => /\ i > 1
                 /\ IsModelTurn(chat[i - 1])
                 /\ chat[i - 1].function_call = chat[i].name
    /\ \A i \in 1..(Len(chat) - 1) :
          (IsModelTurn(chat[i]) /\ chat[i].function_call # "")
              => (chat[i + 1].role = "function" /\ chat[i + 1].sender = "UserProxy")
    /\ \A i \in 1..Len(chat) :
          IsModelTurn(chat[i]) => (i > 1 /\ chat[i - 1].sender = "UserProxy")
    /\ \A i \in 1..(Len(chat) - 1) :
          ~(IsModelTurn(chat[i]) /\ chat[i].content.kind = "str"
              /\ endswith(rstrip(chat[i].content.toks), "TERMINATE"))

\* a step runs at most one tool, and it is the step in which the proxy
\* answers the request and appends the result
OneToolPerStep ==
    (toolRuns' # toolRuns /\ toolRuns' # <<>>)
        => /\ Len(toolRuns') = Len(toolRuns) + 1
           /\ SubSeq(toolRuns', 1, Len(toolRuns)) = toolRuns
           /\ pc = "proxy_received"
           /\ Last(chat).function_call = Last(toolRuns').name
           /\ Len(chat') = Len(chat) + 1
           /\ Last(chat').role = "function"
           /\ Last(chat').name = Last(toolRuns').name

\* once the loop has ended, the conversation and the tool calls of the Ask
\* stay as they are
NothingAfterEnd == pc = "chat_done" => (chat' = chat /\ toolRuns' = toolRuns /\ counter' = counter)

\* C26: within one Ask every tool-result turn immediately follows the
\* turn of the model that requested that tool, the model is consulted
\* again only after the result was appended, tools run one at a time, and
\* after a turn that ends with TERMINATE no model or tool step follows.
C26_TurnsStrictlyOrdered ==
    /\ []TurnsInOrder
    /\ [][OneToolPerStep /\ NothingAfterEnd]_vars

\* a conversation with the results of two different tools, each right
\* after its request, was ended by the sentinel
C26_Witness ==
    /\ pc = "chat_done"
    /\ endedBy = "sentinel"
    /\ Len(toolRuns) = 2
    /\ toolRuns[1].name # toolRuns[2].name
    /\ \E i, j \in 2..Len(chat) :
          /\ i < j
          /\ chat[i].role = "function" /\ chat[i].name = toolRuns[1].name
          /\ chat[j].role = "function" /\ chat[j].name = toolRuns[2].name

----------------------------------------------------------------------------
(* Claims about the start of the process (SpecStart) *)

\* C22: a process started without OPENAI_API_KEY or without GOOGLE_API_KEY
\* fails at its start with a message; a process with both keys starts
\* also without the web-search credential, and then its web search is
\* unavailable.
C22_RequiredCredentialsFailFast ==
    startup # NotStarted =>
        /\ (~openaiKey \/ ~googleKey) => (startup.state = "failed" /\ startup.error # "")
        /\ (openaiKey /\ googleKey)
              => /\ startup.state = "running"
                 /\ ~tavilyEnv.key => startup.web_tool = "None"
                 /\ (~tavilyEnv.key /\ searches > 0) => webOut.kind = "unavailable"

----------------------------------------------------------------------------
(* Claims about the lazy initialisers (SpecThreads) *)

AllReturned == \A t \in Sessions : threads[t].pc = "done"

\* C25: when every session thread has got the agent pair and the RAG
\* chain, all of them hold the same agent pair, the same chain over the
\* same vector-store instance, and each constructor has run once.
C25_InitialisedOnceForAll ==
    AllReturned =>
        /\ \A t, u \in Sessions :
              /\ threads[t].assistant = threads[u].assistant
              /\ threads[t].proxy = threads[u].proxy
              /\ threads[t].chain = threads[u].chain
        /\ \A kind \in DOMAIN made : made[kind] = 1

----------------------------------------------------------------------------
(* Claims about re-ingestion in the running application (SpecReingest) *)

IngestionSucceeded ==
    /\ runs' = runs + 1
    /\ "INFO: Document ingestion process completed successfully!" \in ingestLog'

\* the answer of the query step was computed from documents retrieved from
\* the collection as it is
AnsweredFromCollection ==
    /\ ragOut'.llm # "not asked"
    /\ \E r \in similarity_search(collEntries, k_retriever, ragOut'.question) :
          ragOut'.context_docs = [i \in 1..Len(r) |-> RetrievedDoc(collEntries[r[i]])]

\* C29: a successful ingestion from the sidebar leaves no cached RAG chain
\* and no cached vector-store instance behind, and every knowledge-base
\* query that follows a successful ingestion is answered from the
\* collection as that ingestion left it.
C29_ReingestionResetsHandles ==
    [][/\ IngestionSucceeded => (~handles'.rag_chain /\ ~handles'.vector_store)
       /\ (queries' = queries + 1
             /\ "INFO: Document ingestion process completed successfully!" \in ingestLog)
          => AnsweredFromCollection]_vars

====
